---- MODULE Spec2Model ----
(***************************************************************************)
(* Model of the authN service core: TokenService (JWT sign / verify),      *)
(* SessionService over RedisSessionRepository, and AuthService (register,  *)
(* login, OAuth, refresh, logout, validate).                               *)
(*                                                                         *)
(* Every request handler is an asynchronous function.  Each action of a    *)
(* handler below is one store round trip (one Redis command, one SQL       *)
(* statement, one provider call) together with the local code that runs    *)
(* when its reply arrives, up to the next round trip.  Handlers of         *)
(* different requests interleave at these points.                          *)
(*                                                                         *)
(* Time is counted in units of the access-token TTL.                       *)
(***************************************************************************)
EXTENDS Integers, Sequences, FiniteSets, TLC

\* ------------------------------------------------------------------ bounds
MaxSessions == 3          \* session ids crypto.randomUUID() can hand out
MaxUsers == 2             \* user ids crypto.randomUUID() can hand out
MaxTime == 2              \* the clock stops after this many ticks
MaxOAuthStates == 2       \* OAuth state values crypto.randomUUID() can hand out
AccessTokenTTL == 1       \* config.accessTokenTTL, in ticks
ConfiguredMaxRequests == 3 \* a small config.rateLimit.maxRequests given to createApp
MaxTTL == 2               \* the largest configured TTL tried, in ticks
MaxHits == 24             \* requests counted in one entry of the rate limiter
RefreshTokenTTL == 2      \* config.refreshTokenTTL, in ticks
MaxRegistrations == 4     \* calls of ProviderRegistry.register
MaxInstances == 2         \* provider objects constructed per method

Procs == {"p1", "p2"}     \* requests being served at the same time
Emails == {"a@x.com"}
Passwords == {"Secret123", "Wrong456"}
\* An email as a client may type it, and email.toLowerCase().trim() of it.
RawEmail == " A@X.com "
Normalize(email) == IF email = RawEmail THEN "a@x.com" ELSE email
\* Registration requests: the optional fields absent, or all given.
PlainDto == [email |-> "a@x.com", password |-> "Secret123"]
RawDto == [email |-> RawEmail, password |-> "Secret123"]
AdminDto == [email |-> "a@x.com", password |-> "Secret123", roles |-> {"admin"},
             permissions |-> {"users:read"}, metadata |-> [plan |-> "pro"]]
Null == [none |-> TRUE]

\* ------------------------------------------------------------ TokenService
Config ==
  [secret |-> "change-this-in-production",
   issuer |-> "authn-service",
   audience |-> "authn-api",
   accessTokenTTL |-> AccessTokenTTL,
   refreshTokenTTL |-> RefreshTokenTTL]

\* An optional field of a parameter object: params.f ?? d.
Opt(params, f, d) == IF f \in DOMAIN params THEN params[f] ELSE d
NoMetadata == [k \in {} |-> ""]

\* An option that a call of jwt.verify does not give.
NotGiven == "not given"

\* jwt.sign: the claims given plus iat, exp = iat + expiresIn, under a key.
JwtSign(payload, key, expiresIn, t) ==
  payload @@ [iat |-> t, exp |-> t + expiresIn, key |-> key]

\* jwt.verify that does not look at exp.
JwtVerifyIgnoreExpiration(token, key, issuer, audience, t) ==
  IF token = Null THEN Null
  ELSE IF token.key # key THEN Null
  ELSE IF token.nbf > t THEN Null
  ELSE IF issuer # NotGiven /\ token.iss # issuer THEN Null
  ELSE IF audience # NotGiven /\ token.aud # audience THEN Null
  ELSE token

\* jwt.verify: signature, nbf and exp, and issuer and audience when the call
\* gives them; Null stands for a throw.
\* A token of Null is a string that is no JWT (empty or malformed).
JwtVerify(token, key, issuer, audience, t) ==
  IF token = Null THEN Null
  ELSE IF token.key # key THEN Null
  ELSE IF token.nbf > t THEN Null
  ELSE IF t >= token.exp THEN Null
  ELSE IF issuer # NotGiven /\ token.iss # issuer THEN Null
  ELSE IF audience # NotGiven /\ token.aud # audience THEN Null
  ELSE token

\* signAccessToken that leaves the roles out of the token.
signAccessTokenWithoutRoles(payload, jti, t) ==
  JwtSign([type |-> "access", sub |-> payload.userId, email |-> payload.email,
           sessionId |-> payload.sessionId,
           permissions |-> Opt(payload, "permissions", {}),
           metadata |-> Opt(payload, "metadata", NoMetadata),
           nbf |-> t, iss |-> Config.issuer, aud |-> Config.audience, jti |-> jti],
          Config.secret, Config.accessTokenTTL, t)

\* The two sign methods of a TokenService constructed with config.
signAccessTokenWith(config, payload, jti, t) ==
  JwtSign([type |-> "access", sub |-> payload.userId, email |-> payload.email,
           sessionId |-> payload.sessionId,
           roles |-> Opt(payload, "roles", {}),
           permissions |-> Opt(payload, "permissions", {}),
           metadata |-> Opt(payload, "metadata", NoMetadata),
           nbf |-> t, iss |-> config.issuer, aud |-> config.audience, jti |-> jti],
          config.secret, config.accessTokenTTL, t)

signRefreshTokenWith(config, payload, jti, t) ==
  JwtSign([type |-> "refresh", sub |-> payload.userId, email |-> payload.email,
           sessionId |-> payload.sessionId,
           nbf |-> t, iss |-> config.issuer, aud |-> config.audience, jti |-> jti],
          config.secret, config.refreshTokenTTL, t)

signAccessToken(payload, jti, t) == signAccessTokenWith(Config, payload, jti, t)
signRefreshToken(payload, jti, t) == signRefreshTokenWith(Config, payload, jti, t)

mapPayloadToClaims(payload) ==
  [sub |-> payload.sub, email |-> payload.email, sessionId |-> payload.sessionId,
   roles |-> Opt(payload, "roles", {}),
   permissions |-> Opt(payload, "permissions", {}),
   metadata |-> Opt(payload, "metadata", NoMetadata),
   type |-> payload.type, iss |-> payload.iss, aud |-> payload.aud,
   iat |-> payload.iat, exp |-> payload.exp, nbf |-> payload.nbf,
   jti |-> payload.jti]

verifyAccessToken(token, t) ==
  LET payload == JwtVerify(token, Config.secret, Config.issuer, Config.audience, t)
  IN IF payload = Null THEN Null
     ELSE IF payload.type # "access" THEN Null
     ELSE mapPayloadToClaims(payload)

\* verifyRefreshToken without its check of the type claim.
verifyRefreshTokenAnyType(token, t) ==
  LET payload == JwtVerify(token, Config.secret, Config.issuer, Config.audience, t)
  IN IF payload = Null THEN Null ELSE mapPayloadToClaims(payload)

verifyRefreshToken(token, t) ==
  LET payload == JwtVerify(token, Config.secret, Config.issuer, Config.audience, t)
  IN IF payload = Null THEN Null
     ELSE IF payload.type # "refresh" THEN Null
     ELSE mapPayloadToClaims(payload)

decode(token, t) ==
  LET payload == JwtVerify(token, Config.secret, Config.issuer, Config.audience, t)
  IN IF payload = Null THEN Null ELSE mapPayloadToClaims(payload)

\* isExpired that answers false whenever the signature is right.
isExpiredSignatureOnly(token, t) ==
  JwtVerifyIgnoreExpiration(token, Config.secret, NotGiven, NotGiven, t) = Null

\* isExpired: jwt.verify(token, secret) with no options; false when it
\* returns, true when it throws.
isExpired(token, t) ==
  JwtVerify(token, Config.secret, NotGiven, NotGiven, t) = Null

\* A token signed with another key (a forged or tampered token).
ForgedToken ==
  [type |-> "access", sub |-> 1, email |-> "a@x.com", sessionId |-> 1,
   nbf |-> 0, iss |-> "authn-service", aud |-> "authn-api", jti |-> 0,
   iat |-> 0, exp |-> MaxTime + 1, key |-> "attacker-key"]

\* The client keys of the rate limiter (the first X-Forwarded-For address).
Clients == {"10.0.0.1"}

\* ------------------------------------------------------------------- state
VARIABLES
  now,           \* the clock (Date.now())
  users,         \* PostgresUserRepository: the users table, by id
  nextUid,       \* next user id crypto.randomUUID() hands out
  keys,          \* Redis: session:<id> -> [data, exp]
  userSessions,  \* Redis: user_sessions:<userId> -> [members, exp]
  nextSid,       \* next session id crypto.randomUUID() hands out
  oauthStates,   \* AuthService.oauthStates
  nextState,     \* next OAuth state value crypto.randomUUID() hands out
  pc,            \* where each request handler is suspended
  loc,           \* the local variables of each request handler
  issued,        \* history: the sessions returned to clients
  parent,        \* history: the session each session was rotated from (0: none)
  loggedOut,     \* history: the sessions a completed logout found and removed
  lateChild,     \* history: the sessions rotated from a session then in loggedOut
  consumed,      \* history: the state values of callbacks that returned a session
  rateLimitStore,\* rateLimit.ts: client key -> [count, resetAt]
  attempts,      \* history: per client key, the requests to /register and /login
                 \* counted in windows of fifteen minutes
  answered,      \* history: the last request the limiters have dealt with
  forwarded,     \* history: per client key, the requests the global limiter let
                 \* through, counted in windows of its windowMs
  signed,        \* TokenService: the payload last signed and its two tokens
  inspected,     \* TokenService: the token last verified and what was returned
  removed,       \* history: the session ids whose key a DEL has deleted
  made,          \* a SessionService under some JWT configuration: the
                 \* configuration and the session createSession built
  providers,     \* ProviderRegistry.providers: a Map, in insertion order
  registrations, \* history: the providers passed to register, in order
  routers,       \* the Router objects: app, the health router, the auth router
  built,         \* how many of its routes createHealthRoutes / createAuthRoutes
                 \* has registered on its router
  mergedIn,      \* history: the routers app.merge was called with, and how
                 \* many routes each had then
  handled        \* errorHandlerMiddleware: the error last caught, under which
                 \* NODE_ENV and options, and the response returned

vars == <<now, users, nextUid, keys, userSessions, nextSid, oauthStates, nextState,
          pc, loc, issued, parent, loggedOut, lateChild, consumed,
          rateLimitStore, attempts, answered, forwarded, signed, inspected,
          removed, made, providers, registrations, routers, built, mergedIn,
          handled>>

tokenVars == <<signed, inspected, made>>
registryVars == <<providers, registrations>>
routerVars == <<routers, built, mergedIn>>
unitVars == <<registryVars, routerVars, handled>>

rateVars == <<rateLimitStore, attempts, answered, forwarded>>

storeVars == <<users, nextUid, keys, userSessions, nextSid>>
oauthVars == <<oauthStates, nextState>>
histVars == <<parent, lateChild, removed>>

Uids == 1..MaxUsers
Sids == 1..MaxSessions
NoTTL == 0

\* The local state of a request handler.  Beside the handler's own variables
\* it keeps, for the record of the request: out, how the handler ended ("ok",
\* or the error thrown); verified, whether the token presented verified;
\* existed, whether delete found the session; exchangeCalled, whether the
\* provider's exchangeCode was invoked; alone, whether no other request was in
\* flight at any time during this one; rival, the session of a login that
\* completed while this login was in flight; afterRotation / replay, whether
\* the refresh token / OAuth state presented had been used with success
\* before this request started; known, whether a stored user had the email
\* given when the request started; hadSession / userGone, whether the session
\* of the token was in the store / its user was missing when it started;
\* emailVerified, the emailVerified of the identity authenticate returned.
IdleLoc ==
  [op |-> "none", out |-> "none", tok |-> Null, dto |-> Null, uid |-> 0, email |-> "",
   password |-> "", user |-> Null, sid |-> 0, old |-> Null, session |-> Null,
   ids |-> <<>>, found |-> <<>>, newSess |-> Null, ttl |-> 0, orphan |-> FALSE,
   provider |-> "", code |-> "", state |-> 0,
   verified |-> FALSE, existed |-> FALSE, exchangeCalled |-> FALSE,
   alone |-> TRUE, rival |-> 0, afterRotation |-> FALSE, replay |-> FALSE,
   known |-> FALSE, hadSession |-> FALSE, userGone |-> FALSE,
   emailVerified |-> FALSE]

\* mergedIn of a router app.merge has not been called with.
NotMerged == 0 - 1

Init ==
  /\ now = 0
  /\ users = [u \in Uids |-> Null]
  /\ nextUid = 1
  /\ keys = [s \in Sids |-> Null]
  /\ userSessions = [u \in Uids |-> [members |-> {}, exp |-> NoTTL]]
  /\ nextSid = 1
  /\ oauthStates = [x \in 1..MaxOAuthStates |-> Null]
  /\ nextState = 1
  /\ pc = [p \in Procs |-> "idle"]
  /\ loc = [p \in Procs |-> IdleLoc]
  /\ issued = {}
  /\ parent = [s \in Sids |-> 0]
  /\ loggedOut = {}
  /\ lateChild = {}
  /\ consumed = {}
  /\ rateLimitStore = [k \in Clients |-> Null]
  /\ attempts = [k \in Clients |-> Null]
  /\ answered = Null
  /\ forwarded = [k \in Clients |-> Null]
  /\ signed = Null
  /\ inspected = Null
  /\ made = Null
  /\ removed = {}
  /\ providers = <<>>
  /\ registrations = <<>>
  /\ routers = [app |-> [basePath |-> <<>>, routes |-> <<>>],
                health |-> [basePath |-> <<"/api">>, routes |-> <<>>],
                auth |-> [basePath |-> <<"/api", "/auth">>, routes |-> <<>>]]
  /\ built = [health |-> 0, auth |-> 0]
  /\ mergedIn = [health |-> NotMerged, auth |-> NotMerged]
  /\ handled = Null

\* -------------------------------------------------- PostgresUserRepository
findById(id) == IF id \in Uids THEN users[id] ELSE Null

\* findByEmail without the normalization of its argument.
findByEmailExact(email) ==
  IF \E u \in Uids : users[u] # Null /\ users[u].email = email
  THEN users[CHOOSE u \in Uids : users[u] # Null /\ users[u].email = email]
  ELSE Null

findByEmail(email) ==
  LET normalizedEmail == Normalize(email)
  IN IF \E u \in Uids : users[u] # Null /\ users[u].email = normalizedEmail
     THEN users[CHOOSE u \in Uids : users[u] # Null /\ users[u].email = normalizedEmail]
     ELSE Null

\* A stored user has the normalized form of the email.
EmailTaken(email) ==
  \E u \in Uids : users[u] # Null /\ users[u].email = Normalize(email)

\* DELETE FROM users WHERE id = ...: an account is removed between requests;
\* its sessions stay in Redis.
DeleteUser(id) ==
  /\ id \in Uids /\ users[id] # Null
  /\ users' = [users EXCEPT ![id] = Null]
  /\ UNCHANGED <<now, nextUid, keys, userSessions, nextSid, oauthVars, rateVars, tokenVars, unitVars, pc, loc, issued,
                 histVars, loggedOut, consumed>>

\* The same between two requests.
UserDelete(id) == (\A p \in Procs : pc[p] = "idle") /\ DeleteUser(id)

\* ------------------------------------------------- RedisSessionRepository
\* GET session:<id>, parsed.
RedisFindById(id) == IF id \in Sids /\ keys[id] # Null THEN keys[id].data ELSE Null

\* SMEMBERS user_sessions:<userId>, as the list the client returns.
RECURSIVE SetToSeq(_)
SetToSeq(S) ==
  IF S = {} THEN <<>>
  ELSE LET m == CHOOSE x \in S : \A y \in S : x <= y
       IN <<m>> \o SetToSeq(S \ {m})

\* Redis drops a key once its TTL has run out.
ExpireKeys(ks, t) ==
  [s \in Sids |-> IF ks[s] # Null /\ ks[s].exp <= t THEN Null ELSE ks[s]]

ExpireSets(us, t) ==
  [u \in Uids |-> IF us[u].exp # NoTTL /\ us[u].exp <= t
                  THEN [members |-> {}, exp |-> NoTTL] ELSE us[u]]

\* ----------------------------------------------------------- SessionService
\* createSession that puts each token into the other's field.
NewSessionWithTokensSwapped(config, params, sessionId, t) ==
  [id |-> sessionId, userId |-> params.userId, email |-> params.email,
   accessToken |-> signRefreshTokenWith(config, [sessionId |-> sessionId] @@ params,
                                        2 * sessionId, t),
   refreshToken |-> signAccessTokenWith(config, [sessionId |-> sessionId] @@ params,
                                        2 * sessionId - 1, t),
   roles |-> Opt(params, "roles", {}),
   permissions |-> Opt(params, "permissions", {}),
   metadata |-> Opt(params, "metadata", NoMetadata),
   accessTokenExpiresAt |-> t + config.accessTokenTTL,
   refreshTokenExpiresAt |-> t + config.refreshTokenTTL,
   createdAt |-> t]

\* createSession up to the call of sessionRepository.save: the session object.
NewSessionWith(config, params, sessionId, t) ==
  [id |-> sessionId, userId |-> params.userId, email |-> params.email,
   accessToken |-> signAccessTokenWith(config, [sessionId |-> sessionId] @@ params,
                                       2 * sessionId - 1, t),
   refreshToken |-> signRefreshTokenWith(config, [sessionId |-> sessionId] @@ params,
                                         2 * sessionId, t),
   roles |-> Opt(params, "roles", {}),
   permissions |-> Opt(params, "permissions", {}),
   metadata |-> Opt(params, "metadata", NoMetadata),
   accessTokenExpiresAt |-> t + config.accessTokenTTL,
   refreshTokenExpiresAt |-> t + config.refreshTokenTTL,
   createdAt |-> t]

NewSession(params, sessionId, t) == NewSessionWith(Config, params, sessionId, t)

getSessionById(id) == RedisFindById(id)

\* ------------------------------------------------------ request bookkeeping
OthersIdle(p) == \A q \in Procs \ {p} : pc[q] = "idle"

\* Requests in flight that will still draw a session id.
WillCreate(q) ==
  /\ pc[q] \notin {"idle", "done"}
  /\ loc[q].op \in {"register", "login", "oauth", "refresh"}
  /\ loc[q].newSess = Null
SessionIdsLeft ==
  nextSid + Cardinality({q \in Procs : WillCreate(q)}) <= MaxSessions
WillCreateUser(q) ==
  /\ pc[q] \notin {"idle", "done"}
  /\ loc[q].op \in {"register", "oauth"}
  /\ loc[q].user = Null
UserIdsLeft ==
  nextUid + Cardinality({q \in Procs : WillCreateUser(q)}) <= MaxUsers

TracksAlone(l) == l.op \in {"logout", "logoutAll"}
IsLogin(l) == l.op \in {"login", "oauth"}

\* A request arrives and its handler runs up to its first round trip.
Begin(p, l, label) ==
  /\ pc[p] = "idle"
  /\ pc' = [pc EXCEPT ![p] = label]
  /\ loc' = [q \in Procs |->
               IF q = p THEN [l EXCEPT !.alone = (TracksAlone(l) => OthersIdle(p))]
               ELSE IF pc[q] # "idle" /\ TracksAlone(loc[q])
                    THEN [loc[q] EXCEPT !.alone = FALSE]
               ELSE loc[q]]
  /\ UNCHANGED <<issued, loggedOut, consumed>>

\* A handler returns (out = "ok", "valid", "invalid") or throws (out names the
\* error); l is its local state at that point.  The response is then ready.
Return(p, l, out) ==
  /\ pc' = [pc EXCEPT ![p] = "done"]
  /\ loc' = [q \in Procs |->
               IF q = p THEN [l EXCEPT !.out = out]
               ELSE IF pc[q] \notin {"idle", "done"} /\ IsLogin(loc[q]) /\ IsLogin(l)
                       /\ out = "ok"
                    THEN [loc[q] EXCEPT !.rival = l.newSess.id]
                    ELSE loc[q]]
  /\ issued' = IF out = "ok" /\ l.newSess # Null THEN issued \cup {l.newSess} ELSE issued
  /\ loggedOut' = IF l.op = "logout" /\ l.existed THEN loggedOut \cup {l.sid}
                  ELSE loggedOut
  /\ consumed' = IF l.op = "oauth" /\ out = "ok" THEN consumed \cup {l.state}
                 ELSE consumed

\* A handler moves on to its next round trip.
Goto(p, l, label) ==
  /\ pc' = [pc EXCEPT ![p] = label]
  /\ loc' = [loc EXCEPT ![p] = l]
  /\ UNCHANGED <<issued, loggedOut, consumed>>

\* A handler that returns before its first round trip.
Immediate(p, l, out) ==
  /\ pc[p] = "idle"
  /\ pc' = [pc EXCEPT ![p] = "done"]
  /\ loc' = [q \in Procs |->
               IF q = p THEN [l EXCEPT !.out = out,
                                       !.alone = (TracksAlone(l) => OthersIdle(p))]
               ELSE IF pc[q] # "idle" /\ TracksAlone(loc[q])
                    THEN [loc[q] EXCEPT !.alone = FALSE]
               ELSE loc[q]]
  /\ issued' = issued
  /\ loggedOut' = loggedOut
  /\ consumed' = consumed

\* The response has been sent; the request is over.
Respond(p) ==
  /\ pc[p] = "done"
  /\ pc' = [pc EXCEPT ![p] = "idle"]
  /\ loc' = [loc EXCEPT ![p] = IdleLoc]
  /\ UNCHANGED <<now, storeVars, histVars, oauthVars, rateVars, tokenVars, unitVars, issued, loggedOut, consumed>>

\* A refreshToken call has returned a session rotated from session id.
Rotated(id) == \E s \in issued : parent[s.id] = id

\* The tokens a client can present: those it was given, and a forged one.
AccessTokens == {s.accessToken : s \in issued}
RefreshTokens == {s.refreshToken : s \in issued}
Tokens == AccessTokens \cup RefreshTokens \cup {ForgedToken}

\* A refresh token signed with another key.
TamperedRefreshToken == [ForgedToken EXCEPT !.type = "refresh"]

\* Everything a caller can pass as a token: also a tampered refresh token and
\* a string that is no JWT.
Presented == Tokens \cup {TamperedRefreshToken, Null}

\* ------------------------------------- SessionService.createSession / save
\* createSession draws a session id, signs both tokens and builds the session;
\* save then computes the TTL and returns without writing when it is not
\* positive.  from is the session being rotated (0: none).
\* createSession that keeps the id of the session being rotated.
CreateSessionSameId(p, l, params, from) ==
  LET s == NewSession(params, IF from # 0 THEN from ELSE nextSid, now)
      ttl == s.refreshTokenExpiresAt - now
      l2 == [l EXCEPT !.newSess = s, !.ttl = ttl]
  IN /\ nextSid <= MaxSessions
     /\ nextSid' = nextSid + 1
     /\ parent' = [parent EXCEPT ![nextSid] = from]
     /\ lateChild' = IF from \in loggedOut THEN lateChild \cup {nextSid} ELSE lateChild
     /\ UNCHANGED removed
     /\ IF ttl <= 0 THEN Return(p, l2, "ok") ELSE Goto(p, l2, "save_setex")

CreateSession(p, l, params, from) ==
  LET s == NewSession(params, nextSid, now)
      ttl == s.refreshTokenExpiresAt - now
      l2 == [l EXCEPT !.newSess = s, !.ttl = ttl]
  IN /\ nextSid <= MaxSessions
     /\ nextSid' = nextSid + 1
     /\ parent' = [parent EXCEPT ![nextSid] = from]
     /\ lateChild' = IF from \in loggedOut THEN lateChild \cup {nextSid} ELSE lateChild
     /\ UNCHANGED removed
     /\ IF ttl <= 0 THEN Return(p, l2, "ok") ELSE Goto(p, l2, "save_setex")

\* SETEX session:<id> ttl data
SaveSetex(p) ==
  /\ pc[p] = "save_setex"
  /\ keys' = [keys EXCEPT ![loc[p].newSess.id] =
                [data |-> loc[p].newSess, exp |-> now + loc[p].ttl]]
  /\ Goto(p, loc[p], "save_sadd")
  /\ UNCHANGED <<now, users, nextUid, userSessions, nextSid, histVars, oauthVars, rateVars, tokenVars, unitVars>>

\* SETEX rejected (Redis unreachable): save, createSession and the request
\* handler throw.
SaveSetexFails(p) ==
  /\ pc[p] = "save_setex"
  /\ Return(p, loc[p], "StoreError")
  /\ UNCHANGED <<now, storeVars, histVars, oauthVars, rateVars, tokenVars, unitVars>>

\* SADD user_sessions:<userId> id
SaveSadd(p) ==
  /\ pc[p] = "save_sadd"
  /\ userSessions' = [userSessions EXCEPT ![loc[p].newSess.userId].members =
                        @ \cup {loc[p].newSess.id}]
  /\ Goto(p, loc[p], "save_expire")
  /\ UNCHANGED <<now, users, nextUid, keys, nextSid, histVars, oauthVars, rateVars, tokenVars, unitVars>>

\* EXPIRE user_sessions:<userId> ttl; then createSession returns the session
\* and register / login / refreshToken return it to the client.
SaveExpire(p) ==
  /\ pc[p] = "save_expire"
  /\ LET u == loc[p].newSess.userId
     IN userSessions' =
          IF userSessions[u].members = {} THEN userSessions
          ELSE [userSessions EXCEPT ![u].exp = now + loc[p].ttl]
  /\ Return(p, loc[p], "ok")
  /\ UNCHANGED <<now, users, nextUid, keys, nextSid, histVars, oauthVars, rateVars, tokenVars, unitVars>>

\* ------------------------------------------- RedisSessionRepository.delete
\* refreshSession that carries only the identity forward.
RefreshParamsIdentityOnly(session) ==
  [userId |-> session.userId, email |-> session.email]

\* The parameters refreshSession hands to createSession.
RefreshParams(session) ==
  [userId |-> session.userId, email |-> session.email, roles |-> session.roles,
   permissions |-> session.permissions, metadata |-> session.metadata]

\* What follows delete(id): logout returns; refreshToken throws UserNotFound
\* for an orphaned session and otherwise goes on to createSession.
AfterDelete(p, l) ==
  IF l.op = "logout" THEN
    Return(p, l, "ok") /\ UNCHANGED <<nextSid, histVars>>
  ELSE IF l.orphan THEN
    Return(p, l, "UserNotFound") /\ UNCHANGED <<nextSid, histVars>>
  ELSE CreateSession(p, l, RefreshParams(l.old), l.old.id)

\* findById(id): GET session:<id>; delete returns at once when there is none.
DeleteGet(p) ==
  /\ pc[p] = "del_get"
  /\ LET found == RedisFindById(loc[p].sid)
         l == [loc[p] EXCEPT !.existed = (found # Null),
                             !.session = found]
     IN IF found = Null THEN AfterDelete(p, l)
        ELSE Goto(p, l, "del_del") /\ UNCHANGED <<nextSid, histVars>>
  /\ UNCHANGED <<now, users, nextUid, keys, userSessions, oauthVars, rateVars, tokenVars, unitVars>>

\* delete without its DEL of the session key.
DeleteDelSkipped(p) ==
  /\ pc[p] = "del_del"
  /\ keys' = keys
  /\ Goto(p, loc[p], "del_srem")
  /\ UNCHANGED <<now, users, nextUid, userSessions, nextSid, histVars, oauthVars, rateVars, tokenVars, unitVars>>

\* DEL session:<id>
DeleteDel(p) ==
  /\ pc[p] = "del_del"
  /\ keys' = [keys EXCEPT ![loc[p].sid] = Null]
  /\ removed' = IF keys[loc[p].sid] # Null THEN removed \cup {loc[p].sid} ELSE removed
  /\ Goto(p, loc[p], "del_srem")
  /\ UNCHANGED <<now, users, nextUid, userSessions, nextSid, parent, lateChild,
                 oauthVars, rateVars, tokenVars, unitVars>>

\* SREM user_sessions:<userId> id (Redis drops a set that becomes empty).
Srem(us, userId, id) ==
  LET m == us[userId].members \ {id}
  IN [us EXCEPT ![userId] = IF m = {} THEN [members |-> {}, exp |-> NoTTL]
                            ELSE [members |-> m, exp |-> us[userId].exp]]

DeleteSrem(p) ==
  /\ pc[p] = "del_srem"
  /\ userSessions' = Srem(userSessions, loc[p].session.userId, loc[p].sid)
  /\ AfterDelete(p, loc[p])
  /\ UNCHANGED <<now, users, nextUid, keys, oauthVars, rateVars, tokenVars, unitVars>>

\* ------------------------------------- RedisSessionRepository.deleteByUserId
\* createOrUpdateUserSession granting every login a default role.
LoginParamsWithRole(user, provider) ==
  [userId |-> user.id, email |-> user.email, roles |-> {"user"},
   metadata |-> [provider |-> provider]]

\* The parameters createOrUpdateUserSession hands to createSession.
LoginParams(user, provider) ==
  [userId |-> user.id, email |-> user.email, metadata |-> [provider |-> provider]]

\* What follows deleteByUserId: logoutAll returns; login goes on to
\* createSession for the resolved user.
AfterDeleteByUserId(p, l) ==
  IF l.op = "logoutAll" THEN
    Return(p, l, "ok") /\ UNCHANGED <<nextSid, histVars>>
  ELSE CreateSession(p, l, LoginParams(l.user, l.provider), 0)

\* findByUserId: SMEMBERS user_sessions:<userId>
DbuSmembers(p) ==
  /\ pc[p] = "dbu_smembers"
  /\ LET ids == SetToSeq(userSessions[loc[p].uid].members)
     IN Goto(p, [loc[p] EXCEPT !.ids = ids, !.found = <<>>],
             IF ids = <<>> THEN "dbu_delset" ELSE "dbu_get")
  /\ UNCHANGED <<now, storeVars, histVars, oauthVars, rateVars, tokenVars, unitVars>>

\* findByUserId: GET session:<id> of the next member
DbuGet(p) ==
  /\ pc[p] = "dbu_get"
  /\ LET id == Head(loc[p].ids)
         found == IF RedisFindById(id) # Null THEN Append(loc[p].found, id)
                  ELSE loc[p].found
         rest == Tail(loc[p].ids)
     IN Goto(p, [loc[p] EXCEPT !.ids = rest, !.found = found],
             IF rest # <<>> THEN "dbu_get"
             ELSE IF found # <<>> THEN "dbu_del" ELSE "dbu_delset")
  /\ UNCHANGED <<now, storeVars, histVars, oauthVars, rateVars, tokenVars, unitVars>>

\* DEL session:<id> of the next session found
DbuDel(p) ==
  /\ pc[p] = "dbu_del"
  /\ keys' = [keys EXCEPT ![Head(loc[p].found)] = Null]
  /\ removed' = IF keys[Head(loc[p].found)] # Null
                THEN removed \cup {Head(loc[p].found)} ELSE removed
  /\ Goto(p, [loc[p] EXCEPT !.found = Tail(@)],
          IF Tail(loc[p].found) # <<>> THEN "dbu_del" ELSE "dbu_delset")
  /\ UNCHANGED <<now, users, nextUid, userSessions, nextSid, parent, lateChild,
                 oauthVars, rateVars, tokenVars, unitVars>>

\* DEL user_sessions:<userId>
DbuDelSet(p) ==
  /\ pc[p] = "dbu_delset"
  /\ userSessions' = [userSessions EXCEPT ![loc[p].uid] =
                        [members |-> {}, exp |-> NoTTL]]
  /\ AfterDeleteByUserId(p, loc[p])
  /\ UNCHANGED <<now, users, nextUid, keys, oauthVars, rateVars, tokenVars, unitVars>>

\* ------------------------------------------------------ AuthService.register
Hash(password) == <<"argon2id", password>>

RegisterStart(p, dto) ==
  /\ UserIdsLeft /\ SessionIdsLeft
  /\ Begin(p, [IdleLoc EXCEPT !.op = "register", !.dto = dto, !.email = dto.email,
                              !.password = dto.password,
                              !.known = EmailTaken(dto.email)], "reg_findByEmail")
  /\ UNCHANGED <<now, storeVars, histVars, oauthVars, rateVars, tokenVars, unitVars>>

\* userRepository.findByEmail; then createUser draws the user's id.
RegFindByEmail(p) ==
  /\ pc[p] = "reg_findByEmail"
  /\ IF findByEmail(loc[p].email) # Null
     THEN Return(p, loc[p], "AlreadyExists") /\ UNCHANGED nextUid
     ELSE /\ nextUid <= MaxUsers
          /\ nextUid' = nextUid + 1
          /\ Goto(p, [loc[p] EXCEPT
                        !.user = [id |-> nextUid, email |-> Normalize(loc[p].email),
                                  passwordHash |-> Hash(loc[p].password)],
                        !.uid = nextUid], "reg_save")
  /\ UNCHANGED <<now, users, keys, userSessions, nextSid, histVars, oauthVars, rateVars, tokenVars, unitVars>>

\* The parameters register hands to createSession.
RegisterParams(user, dto) ==
  [f \in {"userId", "email"} \cup (DOMAIN dto \cap {"roles", "permissions", "metadata"}) |->
     IF f = "userId" THEN user.id ELSE IF f = "email" THEN user.email ELSE dto[f]]

\* userRepository.save on a users table without the UNIQUE constraint on email.
UserSaveNotUnique(p, l, label) ==
  /\ users' = [users EXCEPT ![l.user.id] = l.user]
  /\ IF label = "create" THEN CreateSession(p, l, RegisterParams(l.user, l.dto), 0)
     ELSE Goto(p, l, label) /\ UNCHANGED <<nextSid, histVars>>

\* userRepository.save: INSERT ... ON CONFLICT (id) DO UPDATE; the UNIQUE
\* constraint on email makes the statement fail for a second user of the
\* email.  Then register calls createSession.
UserSave(p, l, label) ==
  IF \E u \in Uids \ {l.user.id} : users[u] # Null /\ users[u].email = l.user.email
  THEN Return(p, l, "DatabaseError") /\ UNCHANGED <<users, nextSid, histVars>>
  ELSE /\ users' = [users EXCEPT ![l.user.id] = l.user]
       /\ IF label = "create" THEN CreateSession(p, l, RegisterParams(l.user, l.dto), 0)
          ELSE Goto(p, l, label) /\ UNCHANGED <<nextSid, histVars>>

RegSave(p) ==
  /\ pc[p] = "reg_save"
  /\ UserSave(p, loc[p], "create")
  /\ UNCHANGED <<now, nextUid, keys, userSessions, oauthVars, rateVars, tokenVars, unitVars>>

\* --------------------------------- AuthService.login (method email_password)
LoginStart(p, email, password) ==
  /\ SessionIdsLeft
  /\ Begin(p, [IdleLoc EXCEPT !.op = "login", !.email = email,
                              !.password = password,
                              !.known = EmailTaken(email),
                              !.provider = "email_password"], "auth_findByEmail")
  /\ UNCHANGED <<now, storeVars, histVars, oauthVars, rateVars, tokenVars, unitVars>>

\* authenticate without its password check.
AuthFindByEmailNoPasswordCheck(p) ==
  /\ pc[p] = "auth_findByEmail"
  /\ LET user == findByEmail(loc[p].email)
     IN IF user = Null
        THEN Return(p, loc[p], "InvalidCredentials")
        ELSE Goto(p, [loc[p] EXCEPT !.uid = user.id], "cous_findById")
  /\ UNCHANGED <<now, storeVars, histVars, oauthVars, rateVars, tokenVars, unitVars>>

\* EmailPasswordAuthProvider.authenticate: findByEmail, then the password
\* check; its Error("Invalid email or password") becomes InvalidCredentials in
\* login.  On success createOrUpdateUserSession starts with the user's id.
AuthFindByEmail(p) ==
  /\ pc[p] = "auth_findByEmail"
  /\ LET user == findByEmail(loc[p].email)
     IN IF user = Null \/ user.passwordHash # Hash(loc[p].password)
        THEN Return(p, loc[p], "InvalidCredentials")
        ELSE Goto(p, [loc[p] EXCEPT !.uid = user.id], "cous_findById")
  /\ UNCHANGED <<now, storeVars, histVars, oauthVars, rateVars, tokenVars, unitVars>>

\* createOrUpdateUserSession without its call of invalidateAllUserSessions.
CousFindByIdKeepSessions(p) ==
  /\ pc[p] = "cous_findById"
  /\ LET user == findById(loc[p].uid)
     IN IF user = Null
        THEN Return(p, loc[p], "UserNotFound") /\ UNCHANGED <<nextSid, histVars>>
        ELSE CreateSession(p, [loc[p] EXCEPT !.user = user],
                           LoginParams(user, loc[p].provider), 0)
  /\ UNCHANGED <<now, users, nextUid, keys, userSessions, oauthVars, rateVars, tokenVars, unitVars>>

\* createOrUpdateUserSession that invalidates the sessions of the id before it
\* looks at what findById returned.
CousFindByIdInvalidatesFirst(p) ==
  /\ pc[p] = "cous_findById"
  /\ Goto(p, [loc[p] EXCEPT !.user = findById(loc[p].uid)], "dbu_smembers")
  /\ UNCHANGED <<now, storeVars, histVars, oauthVars, rateVars, tokenVars, unitVars>>

\* createOrUpdateUserSession, authenticatedUser.id given: findById, then
\* invalidateAllUserSessions.
CousFindById(p) ==
  /\ pc[p] = "cous_findById"
  /\ LET user == findById(loc[p].uid)
     IN IF user = Null THEN Return(p, loc[p], "UserNotFound")
        ELSE Goto(p, [loc[p] EXCEPT !.user = user], "dbu_smembers")
  /\ UNCHANGED <<now, storeVars, histVars, oauthVars, rateVars, tokenVars, unitVars>>

\* -------------------------------------------------------- AuthService.logout
\* logout that reports a token that does not verify.
LogoutStartThrows(p, token) ==
  /\ token \in Presented
  /\ LET claims == verifyAccessToken(token, now)
         l == [IdleLoc EXCEPT !.op = "logout", !.tok = token,
                              !.verified = (claims # Null),
                              !.sid = IF claims # Null THEN claims.sessionId ELSE 0]
     IN IF claims = Null THEN Immediate(p, l, "InvalidToken")
        ELSE Begin(p, l, "del_get")
  /\ UNCHANGED <<now, storeVars, histVars, oauthVars, rateVars, tokenVars, unitVars>>

LogoutStart(p, token) ==
  /\ token \in Presented
  /\ LET claims == verifyAccessToken(token, now)
         l == [IdleLoc EXCEPT !.op = "logout", !.tok = token,
                              !.verified = (claims # Null),
                              !.sid = IF claims # Null THEN claims.sessionId ELSE 0]
     IN IF claims = Null THEN Immediate(p, l, "ok")
        ELSE Begin(p, l, "del_get")
  /\ UNCHANGED <<now, storeVars, histVars, oauthVars, rateVars, tokenVars, unitVars>>

\* ---------------------------------------------- authMiddleware, GET /claims
\* authMiddleware: no bearer token or no claims from extractClaims answers 401,
\* anything else calls next().  extractClaims is verifyAccessToken.
authMiddleware(token, t) ==
  IF token = Null THEN "401"
  ELSE IF verifyAccessToken(token, t) = Null THEN "401"
  ELSE "next"

\* GET /claims behind authMiddleware: the handler answers 200 with the claims
\* the middleware put in the context.
ClaimsRoute(p, token) ==
  /\ token \in Presented
  /\ LET l == [IdleLoc EXCEPT !.op = "claims", !.tok = token]
     IN IF authMiddleware(token, now) = "401" THEN Immediate(p, l, "401")
        ELSE Immediate(p, l, "200")
  /\ UNCHANGED <<now, storeVars, histVars, oauthVars, rateVars, tokenVars, unitVars>>

\* ----------------------------------------------------- AuthService.logoutAll
\* The caller is a user who holds a session of theirs.
LogoutAllStart(p, userId) ==
  /\ userId \in {s.userId : s \in issued}
  /\ Begin(p, [IdleLoc EXCEPT !.op = "logoutAll", !.uid = userId], "dbu_smembers")
  /\ UNCHANGED <<now, storeVars, histVars, oauthVars, rateVars, tokenVars, unitVars>>

\* -------------------------------------------------- AuthService.refreshToken
RefreshStart(p, token) ==
  /\ token \in Presented
  /\ LET claims == verifyRefreshToken(token, now)
         l == [IdleLoc EXCEPT !.op = "refresh", !.tok = token,
                              !.verified = (claims # Null),
                              !.afterRotation = (token # Null /\ Rotated(token.sessionId)),
                              !.hadSession = (claims # Null
                                              /\ getSessionById(claims.sessionId) # Null),
                              !.userGone = (claims # Null /\ findById(claims.sub) = Null),
                              !.sid = IF claims # Null THEN claims.sessionId ELSE 0,
                              !.uid = IF claims # Null THEN claims.sub ELSE 0]
     IN IF claims = Null THEN Immediate(p, l, "InvalidToken")
        ELSE SessionIdsLeft /\ Begin(p, l, "rt_getSession")
  /\ UNCHANGED <<now, storeVars, histVars, oauthVars, rateVars, tokenVars, unitVars>>

\* sessionService.getSessionById(claims.sessionId)
RtGetSession(p) ==
  /\ pc[p] = "rt_getSession"
  /\ LET session == getSessionById(loc[p].sid)
     IN IF session = Null THEN Return(p, loc[p], "SessionNotFound")
        ELSE Goto(p, [loc[p] EXCEPT !.old = session], "rt_findUser")
  /\ UNCHANGED <<now, storeVars, histVars, oauthVars, rateVars, tokenVars, unitVars>>

\* refreshToken whose refreshSession creates the new session without deleting
\* the old one.
RtFindUserNoDelete(p) ==
  /\ pc[p] = "rt_findUser"
  /\ LET user == findById(loc[p].uid)
         l == [loc[p] EXCEPT !.orphan = (user = Null), !.user = user]
     IN IF user = Null THEN Goto(p, l, "del_get") /\ UNCHANGED <<nextSid, histVars>>
        ELSE CreateSession(p, l, RefreshParams(l.old), l.old.id)
  /\ UNCHANGED <<now, users, nextUid, keys, userSessions, oauthVars, rateVars, tokenVars, unitVars>>

\* refreshToken that throws UserNotFound without invalidating the session.
RtFindUserKeepsOrphan(p) ==
  /\ pc[p] = "rt_findUser"
  /\ LET user == findById(loc[p].uid)
         l == [loc[p] EXCEPT !.orphan = (user = Null), !.user = user]
     IN IF user = Null THEN Return(p, l, "UserNotFound") ELSE Goto(p, l, "del_get")
  /\ UNCHANGED <<now, storeVars, histVars, oauthVars, rateVars, tokenVars, unitVars>>

\* userRepository.findById(claims.sub); then invalidateSession (no user) or
\* refreshSession, both of which start with sessionRepository.delete.
RtFindUser(p) ==
  /\ pc[p] = "rt_findUser"
  /\ LET user == findById(loc[p].uid)
     IN Goto(p, [loc[p] EXCEPT !.orphan = (user = Null), !.user = user], "del_get")
  /\ UNCHANGED <<now, storeVars, histVars, oauthVars, rateVars, tokenVars, unitVars>>

\* ------------------------------------------- AuthService.validateAccessToken
ValidateStart(p, token) ==
  /\ token \in Tokens
  /\ LET claims == verifyAccessToken(token, now)
         l == [IdleLoc EXCEPT !.op = "validate", !.tok = token,
                              !.verified = (claims # Null),
                              !.sid = IF claims # Null THEN claims.sessionId ELSE 0,
                              !.uid = IF claims # Null THEN claims.sub ELSE 0]
     IN IF claims = Null THEN Immediate(p, l, "invalid")
        ELSE Begin(p, l, "va_getSession")
  /\ UNCHANGED <<now, storeVars, histVars, oauthVars, rateVars, tokenVars, unitVars>>

VaGetSession(p) ==
  /\ pc[p] = "va_getSession"
  /\ IF getSessionById(loc[p].sid) = Null THEN Return(p, loc[p], "invalid")
     ELSE Goto(p, loc[p], "va_findUser")
  /\ UNCHANGED <<now, storeVars, histVars, oauthVars, rateVars, tokenVars, unitVars>>

VaFindUser(p) ==
  /\ pc[p] = "va_findUser"
  /\ Return(p, [loc[p] EXCEPT !.user = findById(loc[p].uid)], "valid")
  /\ UNCHANGED <<now, storeVars, histVars, oauthVars, rateVars, tokenVars, unitVars>>

\* ------------------------------------------------------ AuthService OAuth
\* The providers index.ts registers (GitHub configured, Apple not).
Registered == {"email_password", "github"}
OAuthCapable == {"github"}
VALID_PROVIDERS == {"google", "github", "apple"}
OAuthStateTTL == 1   \* the ten minutes of cleanupOAuthStates, in ticks

cleanupOAuthStates(states, t) ==
  [x \in DOMAIN states |->
     IF states[x] # Null /\ states[x].timestamp < t - OAuthStateTTL THEN Null
     ELSE states[x]]

\* getOAuthUrl has no await: it runs to completion in one step.
GetOAuthUrl(p, provider, redirectUri) ==
  /\ LET l == [IdleLoc EXCEPT !.op = "getOAuthUrl", !.provider = provider]
     IN IF provider \notin Registered \cap OAuthCapable
        THEN Immediate(p, l, "OAuthProviderError") /\ UNCHANGED <<oauthStates, nextState>>
        ELSE /\ nextState <= MaxOAuthStates
             /\ oauthStates' = cleanupOAuthStates(
                  [oauthStates EXCEPT ![nextState] =
                     [provider |-> provider, redirectUri |-> redirectUri,
                      timestamp |-> now]], now)
             /\ nextState' = nextState + 1
             /\ Immediate(p, [l EXCEPT !.state = nextState], "ok")
  /\ UNCHANGED <<now, storeVars, histVars, rateVars, tokenVars, unitVars>>

\* The state values a callback can carry: one that getOAuthUrl issued (1, 2,
\* ...), an empty one (NoState) or one that was never issued.
NoState == 0
NeverIssued == 0 - 1
StateValues == {NoState, NeverIssued} \cup 1..(nextState - 1)

\* OAuthCredentialsSchema.validate on the callback body.
OAuthCredentialsValid(provider, code, redirectUri, state) ==
  /\ provider \in VALID_PROVIDERS
  /\ code # ""
  /\ redirectUri # ""
  /\ state # NoState

\* POST /oauth/callback: validate the body, then loginWithOAuth(provider,
\* code, redirectUri) -> login, which looks the provider up in the registry.
OAuthCallbackStart(p, provider, code, redirectUri, state) ==
  /\ LET l == [IdleLoc EXCEPT !.op = "oauth", !.provider = provider,
                              !.code = code, !.state = state,
                              !.replay = (state \in consumed)]
     IN IF ~OAuthCredentialsValid(provider, code, redirectUri, state)
        THEN Immediate(p, l, "ValidationError")
        ELSE IF provider \notin Registered
        THEN Immediate(p, l, "BadRequest")
        ELSE UserIdsLeft /\ SessionIdsLeft /\ Begin(p, l, "oa_exchangeCode")
  /\ UNCHANGED <<now, storeVars, histVars, oauthVars, rateVars, tokenVars, unitVars>>

\* GitHubAuthProvider.authenticate: exchangeCode posts the code to the
\* provider, which refuses a code it did not hand out.
OaExchangeCode(p) ==
  /\ pc[p] = "oa_exchangeCode"
  /\ LET l == [loc[p] EXCEPT !.exchangeCalled = TRUE]
     IN IF l.code # "good-code" THEN Return(p, l, "ProviderError")
        ELSE Goto(p, l, "oa_getUserInfo")
  /\ UNCHANGED <<now, storeVars, histVars, oauthVars, rateVars, tokenVars, unitVars>>

\* String.prototype.includes on texts given word by word.
Includes(text, word) == \E i \in 1..Len(text) : text[i] = word

\* The catch block of login: an Error whose message includes "Invalid" is
\* replaced by InvalidCredentialsError, any other is thrown again as it is (an
\* Error of the provider: "ProviderError").
LoginCatch(message) ==
  IF Includes(message, "Invalid") THEN "InvalidCredentials" ELSE "ProviderError"

\* What the token endpoint, or a proxy in front of it, answers with a status
\* that is not ok: the body of a 502, the body of a 526.
FailureBodies == {<<"Bad", "Gateway">>, <<"Invalid", "SSL", "certificate">>}

\* exchangeCode when response.ok is false: it throws
\* Error(`Failed to exchange code: ${body}`), which login catches.
OaExchangeCodeNotOk(p, body) ==
  /\ pc[p] = "oa_exchangeCode"
  /\ body \in FailureBodies
  /\ Return(p, [loc[p] EXCEPT !.exchangeCalled = TRUE],
            LoginCatch(<<"Failed", "to", "exchange", "code:">> \o body))
  /\ UNCHANGED <<now, storeVars, histVars, oauthVars, rateVars, tokenVars, unitVars>>

\* getUserInfo: the provider names the account's email; authenticate returns
\* an identity without a local id.  The email is the one of the account's
\* profile (userData.email), and emailVerified stays false.
OaGetUserInfo(p, email) ==
  /\ pc[p] = "oa_getUserInfo"
  /\ Goto(p, [loc[p] EXCEPT !.email = email, !.emailVerified = FALSE],
          "cous_findByEmail")
  /\ UNCHANGED <<now, storeVars, histVars, oauthVars, rateVars, tokenVars, unitVars>>

\* getUserInfo for an account without a profile email: the email is a verified
\* one of the account's email list, and emailVerified is its verified flag.
OaGetUserInfoFromEmails(p, email) ==
  /\ pc[p] = "oa_getUserInfo"
  /\ Goto(p, [loc[p] EXCEPT !.email = email, !.emailVerified = TRUE],
          "cous_findByEmail")
  /\ UNCHANGED <<now, storeVars, histVars, oauthVars, rateVars, tokenVars, unitVars>>

\* createOrUpdateUserSession, no authenticatedUser.id: findByEmail, and for an
\* unknown email createUser with a random password.
CousFindByEmail(p) ==
  /\ pc[p] = "cous_findByEmail"
  /\ LET existing == findByEmail(loc[p].email)
     IN IF existing # Null
        THEN Goto(p, [loc[p] EXCEPT !.user = existing, !.uid = existing.id],
                  "dbu_smembers") /\ UNCHANGED nextUid
        ELSE /\ nextUid <= MaxUsers
             /\ nextUid' = nextUid + 1
             /\ Goto(p, [loc[p] EXCEPT
                           !.user = [id |-> nextUid, email |-> Normalize(loc[p].email),
                                     passwordHash |-> Hash("random-uuid")],
                           !.uid = nextUid], "cous_save")
  /\ UNCHANGED <<now, users, keys, userSessions, nextSid, histVars, oauthVars, rateVars, tokenVars, unitVars>>

\* userRepository.save(user); then invalidateAllUserSessions.
CousSave(p) ==
  /\ pc[p] = "cous_save"
  /\ UserSave(p, loc[p], "dbu_smembers")
  /\ UNCHANGED <<now, nextUid, keys, userSessions, oauthVars, rateVars, tokenVars, unitVars>>

\* ------------------------------------------------------ rateLimitMiddleware
\* In the specification of the limiters one tick of the clock is a minute.
GlobalWindow == 1            \* DEFAULT_RATE_LIMIT_OPTIONS.windowMs, in minutes
GlobalMaxRequests == 100     \* DEFAULT_RATE_LIMIT_OPTIONS.maxRequests
AuthWindow == 15             \* authRateLimitMiddleware's windowMs, in minutes
AuthMaxRequests == 10        \* authRateLimitMiddleware's maxRequests

SkipPaths == {"/api/health", "/api/ready"}
AuthPaths == {"/register", "/login"}
Paths == AuthPaths \cup {"/me", "/api/health"}

\* rateLimitMiddleware that replaces an entry only when it is missing.
rateLimitMiddlewareNeverResets(store, key, path, windowMs, maxRequests, t) ==
  IF path \in SkipPaths THEN [store |-> store, pass |-> TRUE]
  ELSE LET old == store[key]
           entry == IF old = Null
                    THEN [count |-> 0, resetAt |-> t + windowMs]
                    ELSE old
           count == entry.count + 1
       IN [store |-> [store EXCEPT ![key] = [entry EXCEPT !.count = count]],
           pass |-> ~(count > maxRequests)]

\* One limiter dealing with a request: a skipped path passes untouched; else
\* the entry of the key is replaced when missing or past its resetAt, its
\* count goes up by one and the request passes unless the count exceeds
\* maxRequests.  store is the Map the limiter works on.
rateLimitMiddleware(store, key, path, windowMs, maxRequests, t) ==
  IF path \in SkipPaths THEN [store |-> store, pass |-> TRUE]
  ELSE LET old == store[key]
           entry == IF old = Null \/ old.resetAt < t
                    THEN [count |-> 0, resetAt |-> t + windowMs]
                    ELSE old
           count == entry.count + 1
       IN [store |-> [store EXCEPT ![key] = [entry EXCEPT !.count = count]],
           pass |-> ~(count > maxRequests)]

authRateLimitMiddleware(store, key, path, t) ==
  rateLimitMiddleware(store, key, path, AuthWindow, AuthMaxRequests, t)

\* The middleware chain of a request up to its handler: the global limiter of
\* createApp, then on /register and /login the route's authRateLimitMiddleware;
\* both work on the one rateLimitStore of the module.  The chain runs without
\* suspension, so it is one step.  attempts is what a limiter of /register and
\* /login with a store of its own would hold.
Handle(key, path, maxRequests) ==
  /\ path \in Paths
  /\ rateLimitStore[key] # Null => rateLimitStore[key].count + 2 <= MaxHits
  /\ LET g == rateLimitMiddleware(rateLimitStore, key, path, GlobalWindow,
                                  maxRequests, now)
         a == IF g.pass /\ path \in AuthPaths
              THEN authRateLimitMiddleware(g.store, key, path, now)
              ELSE g
         w == forwarded[key]
         fresh == w = Null \/ w.resetAt < now
         before == IF fresh THEN 0 ELSE w.count
     IN /\ rateLimitStore' = a.store
        /\ answered' = [key |-> key, path |-> path,
                        status |-> IF a.pass THEN "next" ELSE "429",
                        global |-> g.pass, fresh |-> fresh, before |-> before,
                        renewed |-> (w # Null /\ fresh)]
        /\ attempts' = IF path \in AuthPaths
                        THEN authRateLimitMiddleware(attempts, key, path, now).store
                        ELSE attempts
        /\ forwarded' =
             IF path \in SkipPaths THEN forwarded
             ELSE [forwarded EXCEPT ![key] =
                     [count |-> before + (IF g.pass THEN 1 ELSE 0),
                      resetAt |-> IF fresh THEN now + GlobalWindow ELSE w.resetAt]]
  /\ UNCHANGED <<now, storeVars, oauthVars, pc, loc, issued, histVars, loggedOut,
                 consumed, tokenVars, unitVars>>

\* A request to the application as src/index.ts configures it.
Request(key, path) == Handle(key, path, GlobalMaxRequests)

\* The setInterval callback: entries past their resetAt are deleted.
Sweep ==
  /\ \E k \in Clients : rateLimitStore[k] # Null /\ rateLimitStore[k].resetAt < now
  /\ rateLimitStore' = [k \in Clients |->
                          IF rateLimitStore[k] # Null /\ rateLimitStore[k].resetAt < now
                          THEN Null ELSE rateLimitStore[k]]
  /\ UNCHANGED <<now, storeVars, oauthVars, pc, loc, issued, histVars, loggedOut,
                 consumed, attempts, answered, forwarded, tokenVars, unitVars>>

\* --------------------------------------------------- TokenService, directly
\* The payloads given to signAccessToken / signRefreshToken: the optional
\* fields absent, empty, or given.
Payloads ==
  {b @@ o : b \in [userId : 1..2, email : {"a@x.com", "b@x.com"}, sessionId : 1..2],
            o \in {NoMetadata,
                   [roles |-> {}, permissions |-> {}, metadata |-> NoMetadata],
                   [roles |-> {"admin"}],
                   [roles |-> {"admin"}, permissions |-> {"users:read"},
                    metadata |-> [plan |-> "pro"]]}}

\* A token under the same secret from a service configured with another
\* issuer or audience.
OtherIssuer(token) == [token EXCEPT !.iss = "other-service"]
OtherAudience(token) == [token EXCEPT !.aud = "other-api"]

\* The tokens a caller can hand to the TokenService.
Candidates ==
  {Null, ForgedToken} \cup
  (IF signed = Null THEN {}
   ELSE {signed.access, signed.refresh, OtherIssuer(signed.access),
         OtherAudience(signed.refresh)})

\* Both tokens are signed for a payload.
Sign(payload) ==
  /\ payload \in Payloads
  /\ signed' = [payload |-> payload,
                access |-> signAccessToken(payload, 1, now),
                refresh |-> signRefreshToken(payload, 2, now)]
  /\ inspected' = Null
  /\ UNCHANGED <<now, storeVars, oauthVars, pc, loc, issued, histVars, loggedOut,
                 consumed, rateVars, unitVars, made>>

\* A token is passed to verifyAccessToken, verifyRefreshToken, decode and
\* isExpired.
Inspect(token) ==
  /\ token \in Candidates
  /\ inspected' = [token |-> token, at |-> now,
                   access |-> verifyAccessToken(token, now),
                   refresh |-> verifyRefreshToken(token, now),
                   decoded |-> decode(token, now),
                   expired |-> isExpired(token, now)]
  /\ UNCHANGED <<now, storeVars, oauthVars, pc, loc, issued, histVars, loggedOut,
                 consumed, rateVars, unitVars, signed, made>>

\* The JWT configurations src/index.ts can read from JWT_ACCESS_TTL and
\* JWT_REFRESH_TTL: any two positive numbers.
JwtConfigs ==
  {[Config EXCEPT !.accessTokenTTL = a, !.refreshTokenTTL = r] :
     a \in 1..MaxTTL, r \in 1..MaxTTL}

\* createSession, up to save, of a SessionService whose TokenService was
\* constructed with config.
Create(config, params) ==
  /\ config \in JwtConfigs /\ params \in Payloads
  /\ made' = [config |-> config,
              session |-> NewSessionWith(config, params, params.sessionId, now)]
  /\ UNCHANGED <<now, storeVars, oauthVars, pc, loc, issued, histVars, loggedOut,
                 consumed, rateVars, unitVars, signed, inspected>>

\* ---------------------------------------------------------- ProviderRegistry
\* A Map is a sequence of entries in insertion order.  set replaces the value
\* of a key it holds, in place, and appends an entry for a new key.
\* Map.set that always appends an entry.
MapSetAppends(map, key, value) == Append(map, [key |-> key, value |-> value])

MapSet(map, key, value) ==
  IF \E i \in 1..Len(map) : map[i].key = key
  THEN [i \in 1..Len(map) |->
          IF map[i].key = key THEN [key |-> key, value |-> value] ELSE map[i]]
  ELSE Append(map, [key |-> key, value |-> value])

MapHas(map, key) == \E i \in 1..Len(map) : map[i].key = key
MapGet(map, key) ==
  IF MapHas(map, key)
  THEN map[CHOOSE i \in 1..Len(map) :
             map[i].key = key /\ \A j \in 1..(i - 1) : map[j].key # key].value
  ELSE Null
MapKeys(map) == [i \in 1..Len(map) |-> map[i].key]

\* The provider objects: each has a method; two objects of one method differ.
AuthMethods == {"email_password", "github", "api_key"}
ProviderObjects == [method : AuthMethods, instance : 1..MaxInstances]

register(provider) ==
  /\ provider \in ProviderObjects
  /\ Len(registrations) < MaxRegistrations
  /\ providers' = MapSet(providers, provider.method, provider)
  /\ registrations' = Append(registrations, provider)
  /\ UNCHANGED <<now, storeVars, oauthVars, pc, loc, issued, histVars, loggedOut,
                 consumed, rateVars, tokenVars, routerVars, handled>>

get(method) == MapGet(providers, method)
has(method) == MapHas(providers, method)
list == MapKeys(providers)

\* -------------------------------------------------------------------- Router
\* A path is the sequence of its segments ("/api/auth/me" is <<"/api", "/auth",
\* "/me">>); + is \o.  routes is a Map from full path to a Map from method to
\* [handler, middlewares].
\* String.prototype.replace(pattern, ""): the first occurrence of pattern is
\* cut out of str.
StringReplace(str, pattern) ==
  LET n == Len(pattern)
      at == {i \in 1..(Len(str) - n + 1) : SubSeq(str, i, i + n - 1) = pattern}
  IN IF n = 0 \/ at = {} THEN str
     ELSE LET i == CHOOSE k \in at : \A j \in at : k <= j
          IN SubSeq(str, 1, i - 1) \o SubSeq(str, i + n, Len(str))

toUpperCase(method) ==
  CASE method \in {"get", "GET"} -> "GET"
    [] method \in {"post", "POST"} -> "POST"

route(this, method, path, handler, middlewares) ==
  LET fullPath == this.basePath \o path
      methods == IF MapHas(this.routes, fullPath) THEN MapGet(this.routes, fullPath)
                 ELSE <<>>
  IN [this EXCEPT !.routes =
        MapSet(@, fullPath,
               MapSet(methods, toUpperCase(method),
                      [handler |-> handler, middlewares |-> middlewares]))]

\* The entries of router.routes in the order the two loops of merge visit them.
RECURSIVE Flatten(_)
Flatten(routes) ==
  IF routes = <<>> THEN <<>>
  ELSE [i \in 1..Len(Head(routes).value) |->
          [path |-> Head(routes).key,
           method |-> Head(routes).value[i].key,
           config |-> Head(routes).value[i].value]]
       \o Flatten(Tail(routes))

RECURSIVE MergeEntries(_, _, _)
MergeEntries(this, entries, basePath) ==
  IF entries = <<>> THEN this
  ELSE MergeEntries(route(this, Head(entries).method,
                          StringReplace(Head(entries).path, basePath),
                          Head(entries).config.handler,
                          Head(entries).config.middlewares),
                    Tail(entries), basePath)

merge(this, router) == MergeEntries(this, Flatten(router.routes), router.basePath)

\* getRoutes: the {method, path} of every route (the list, without its order).
getRoutes(this) ==
  LET entries == Flatten(this.routes)
  IN {[method |-> entries[i].method, path |-> entries[i].path] :
        i \in 1..Len(entries)}

\* handler(): the route found for a request, or the 404 / 405 answer.
handler(this, method, path) ==
  IF ~MapHas(this.routes, path) THEN "404"
  ELSE IF ~MapHas(MapGet(this.routes, path), toUpperCase(method)) THEN "405"
  ELSE MapGet(MapGet(this.routes, path), toUpperCase(method))

\* The calls createHealthRoutes and createAuthRoutes make on their router.
createHealthRoutes ==
  << [method |-> "GET", path |-> <<"/health">>, middlewares |-> <<>>],
     [method |-> "GET", path |-> <<"/ready">>, middlewares |-> <<>>] >>

createAuthRoutes ==
  << [method |-> "POST", path |-> <<"/register">>, middlewares |-> <<"authRateLimit">>],
     [method |-> "POST", path |-> <<"/login">>, middlewares |-> <<"authRateLimit">>],
     [method |-> "GET", path |-> <<"/oauth", "/url">>, middlewares |-> <<>>],
     [method |-> "POST", path |-> <<"/oauth", "/callback">>, middlewares |-> <<>>],
     [method |-> "POST", path |-> <<"/logout">>, middlewares |-> <<"auth">>],
     [method |-> "POST", path |-> <<"/logout-all">>, middlewares |-> <<"auth">>],
     [method |-> "POST", path |-> <<"/refresh">>, middlewares |-> <<>>],
     [method |-> "POST", path |-> <<"/validate">>, middlewares |-> <<>>],
     [method |-> "GET", path |-> <<"/claims">>, middlewares |-> <<"auth">>],
     [method |-> "GET", path |-> <<"/me">>, middlewares |-> <<"auth">>],
     [method |-> "GET", path |-> <<"/methods">>, middlewares |-> <<>>] >>

RouteCalls(name) == IF name = "health" THEN createHealthRoutes ELSE createAuthRoutes

\* The next router.get / router.post call of createHealthRoutes or
\* createAuthRoutes; the handler is named by its route.
RouteCall(name) ==
  /\ name \in {"health", "auth"}
  /\ built[name] < Len(RouteCalls(name))
  /\ LET c == RouteCalls(name)[built[name] + 1]
     IN routers' = [routers EXCEPT ![name] =
                      route(@, c.method, c.path, <<c.method, c.path>>, c.middlewares)]
  /\ built' = [built EXCEPT ![name] = @ + 1]
  /\ UNCHANGED <<now, storeVars, oauthVars, pc, loc, issued, histVars, loggedOut,
                 consumed, rateVars, tokenVars, registryVars, mergedIn, handled>>

\* app.merge(router), of createApp or of any other user of Router.
Merge(name) ==
  /\ name \in {"health", "auth"}
  /\ mergedIn[name] = NotMerged
  /\ routers' = [routers EXCEPT !.app = merge(@, routers[name])]
  /\ mergedIn' = [mergedIn EXCEPT ![name] = built[name]]
  /\ UNCHANGED <<now, storeVars, oauthVars, pc, loc, issued, histVars, loggedOut,
                 consumed, rateVars, tokenVars, registryVars, built, handled>>

\* ---------------------------------------------------------------- the clock
\* The clock moves on by one, up to limit; Redis drops what has run out.
Advance(limit) ==
  /\ now < limit
  /\ now' = now + 1
  /\ keys' = ExpireKeys(keys, now + 1)
  /\ userSessions' = ExpireSets(userSessions, now + 1)
  /\ UNCHANGED <<users, nextUid, nextSid, oauthVars, rateVars, tokenVars, unitVars, pc, loc, issued,
                 histVars, loggedOut, consumed>>

Tick == Advance(MaxTime)

\* ------------------------------------------------------------ specification
\* The round trips of register, password login, refreshToken, logout and
\* logoutAll.
Step(p) ==
  \/ RegFindByEmail(p) \/ RegSave(p)
  \/ AuthFindByEmail(p) \/ CousFindById(p)
  \/ RtGetSession(p) \/ RtFindUser(p)
  \/ DeleteGet(p) \/ DeleteDel(p) \/ DeleteSrem(p)
  \/ DbuSmembers(p) \/ DbuGet(p) \/ DbuDel(p) \/ DbuDelSet(p)
  \/ SaveSetex(p) \/ SaveSadd(p) \/ SaveExpire(p)

\* The round trips of an OAuth login up to invalidateAllUserSessions.
StepOAuth(p) ==
  \/ OaExchangeCode(p)
  \/ \E e \in Emails : OaGetUserInfo(p, e)
  \/ CousFindByEmail(p) \/ CousSave(p)

\* Requests served concurrently, within one tick of the clock.
Next ==
  \/ \E p \in Procs : RegisterStart(p, PlainDto)
  \/ \E p \in Procs, e \in Emails : LoginStart(p, e, "Secret123")
  \/ \E p \in Procs, t \in AccessTokens : LogoutStart(p, t)
  \/ \E p \in Procs, u \in Uids : LogoutAllStart(p, u)
  \/ \E p \in Procs, t \in RefreshTokens : RefreshStart(p, t)
  \/ \E p \in Procs : Step(p) \/ Respond(p)

Spec == Init /\ [][Next]_vars

\* Requests served one after the other, as the clock advances.
NextSeq ==
  \/ RegisterStart("p1", PlainDto)
  \/ \E e \in Emails : LoginStart("p1", e, "Secret123")
  \/ \E t \in AccessTokens : LogoutStart("p1", t)
  \/ \E t \in AccessTokens \cup RefreshTokens : RefreshStart("p1", t)
  \/ \E t \in AccessTokens : ValidateStart("p1", t)
  \/ Step("p1")
  \/ VaGetSession("p1") \/ VaFindUser("p1")
  \/ Respond("p1")
  \/ Tick

SpecSeq == Init /\ [][NextSeq]_vars

\* Every way of signing in, and rotation, one request after the other.
NextLogin ==
  \/ RegisterStart("p1", PlainDto)
  \/ \E e \in Emails : LoginStart("p1", e, "Secret123")
  \/ \E t \in RefreshTokens : RefreshStart("p1", t)
  \/ OAuthCallbackStart("p1", "github", "good-code", "https://app/cb", NeverIssued)
  \/ Step("p1")
  \/ StepOAuth("p1")
  \/ Respond("p1")
  \/ Tick

SpecLogin == Init /\ [][NextLogin]_vars

\* The OAuth authorization-code flow alone: authorization URLs are issued
\* and callbacks arrive, one request after the other.
NextOAuth ==
  \/ \E v \in {"github", "apple"} : GetOAuthUrl("p1", v, "https://app/cb")
  \/ \E v \in {"github", "apple", "gitlab"}, c \in {"good-code", "bad-code"},
        x \in StateValues :
          OAuthCallbackStart("p1", v, c, "https://app/cb", x)
  \/ StepOAuth("p1")
  \/ DbuSmembers("p1") \/ DbuGet("p1") \/ DbuDel("p1") \/ DbuDelSet("p1")
  \/ SaveSetex("p1") \/ SaveSadd("p1") \/ SaveExpire("p1")
  \/ Respond("p1")
  \/ Tick

SpecOAuth == Init /\ [][NextOAuth]_vars

\* The life of the OAuth state store: authorization URLs are issued when a
\* client asks, callbacks come back with a state, other requests pass the rate
\* limiter, and the clock and the one-minute timer keep running.  The server
\* finishes every request it began, the clock advances, the timer fires and
\* callbacks keep arriving; nothing obliges a client to ask for another
\* authorization URL.
NextOAuthLife ==
  \/ GetOAuthUrl("p1", "github", "https://app/cb")
  \/ \E x \in StateValues :
       OAuthCallbackStart("p1", "github", "bad-code", "https://app/cb", x)
  \/ OaExchangeCode("p1")
  \/ Respond("p1")
  \/ \E k \in Clients : Request(k, "/me")
  \/ Sweep
  \/ Tick

SpecOAuthLife ==
  /\ Init /\ [][NextOAuthLife]_vars
  /\ WF_vars(OaExchangeCode("p1")) /\ WF_vars(Respond("p1"))
  /\ WF_vars(Sweep) /\ WF_vars(Tick)
  /\ WF_vars(\E x \in StateValues :
               OAuthCallbackStart("p1", "github", "bad-code", "https://app/cb", x))

\* Requests that fail or meet a failure, one after the other: any
\* registration, right and wrong passwords, rotations, and a Redis that
\* rejects a write.
NextErr ==
  \/ \E d \in {PlainDto, RawDto, AdminDto} : RegisterStart("p1", d)
  \/ \E e \in Emails, w \in Passwords : LoginStart("p1", e, w)
  \/ \E t \in RefreshTokens : RefreshStart("p1", t)
  \/ Step("p1")
  \/ SaveSetexFails("p1")
  \/ Respond("p1")
  \/ Tick

SpecErr == Init /\ [][NextErr]_vars

\* Anything a caller can pass as a token, on the routes that take one, one
\* request after the other.
NextTokens ==
  \/ RegisterStart("p1", PlainDto)
  \/ \E e \in Emails : LoginStart("p1", e, "Secret123")
  \/ \E t \in Presented : LogoutStart("p1", t)
  \/ \E t \in Presented : RefreshStart("p1", t)
  \/ Step("p1")
  \/ Respond("p1")
  \/ Tick

SpecTokens == Init /\ [][NextTokens]_vars

\* A client that signs up, signs out and calls a route behind authMiddleware
\* with whatever it holds.
NextClaims ==
  \/ RegisterStart("p1", PlainDto)
  \/ \E t \in AccessTokens : LogoutStart("p1", t)
  \/ \E t \in Presented : ClaimsRoute("p1", t)
  \/ RegFindByEmail("p1") \/ RegSave("p1")
  \/ SaveSetex("p1") \/ SaveSadd("p1") \/ SaveExpire("p1")
  \/ DeleteGet("p1") \/ DeleteDel("p1") \/ DeleteSrem("p1")
  \/ Respond("p1")
  \/ Tick

SpecClaims == Init /\ [][NextClaims]_vars

\* Requests made one after the other while accounts are being removed.
NextOrphan ==
  \/ RegisterStart("p1", PlainDto)
  \/ \E e \in Emails : LoginStart("p1", e, "Secret123")
  \/ \E t \in Tokens : RefreshStart("p1", t)
  \/ \E u \in Uids : UserDelete(u)
  \/ Step("p1")
  \/ Respond("p1")
  \/ Tick

SpecOrphan == Init /\ [][NextOrphan]_vars

\* One client signing up and in while a second request signs out or rotates
\* concurrently, and accounts are removed in between.
NextRemoval ==
  \/ RegisterStart("p1", PlainDto)
  \/ \E e \in Emails : LoginStart("p1", e, "Secret123")
  \/ \E t \in AccessTokens : LogoutStart("p2", t)
  \/ \E u \in Uids : LogoutAllStart("p2", u)
  \/ \E t \in RefreshTokens : RefreshStart("p2", t)
  \/ \E u \in Uids : UserDelete(u)
  \/ \E p \in Procs : Step(p) \/ Respond(p)

SpecRemoval == Init /\ [][NextRemoval]_vars

\* Sign-ups, logins and rotations one after the other, while accounts are
\* removed at any moment, also in the middle of a request.
NextStale ==
  \/ RegisterStart("p1", PlainDto)
  \/ \E e \in Emails : LoginStart("p1", e, "Secret123")
  \/ \E t \in RefreshTokens : RefreshStart("p1", t)
  \/ \E u \in Uids : DeleteUser(u)
  \/ Step("p1")
  \/ Respond("p1")
  \/ Tick

SpecStale == Init /\ [][NextStale]_vars

\* The composition root and anything else registering providers.
NextRegistry == \E provider \in ProviderObjects : register(provider)

SpecRegistry == Init /\ [][NextRegistry]_vars

\* Routers are built route by route and merged into the app, as createApp
\* does and in any other order.
NextRouter ==
  \/ \E name \in {"health", "auth"} : RouteCall(name)
  \/ \E name \in {"health", "auth"} : Merge(name)

SpecRouter == Init /\ [][NextRouter]_vars

\* Two sign-ups for one mailbox at the same time: a register next to another
\* register or next to an OAuth login that finds the same email.
NextUsers ==
  \/ \E d \in {PlainDto, RawDto} : RegisterStart("p1", d)
  \/ RegisterStart("p2", PlainDto)
  \/ OAuthCallbackStart("p2", "github", "good-code", "https://app/cb", NeverIssued)
  \/ StepOAuth("p2")
  \/ \E p \in Procs :
       \/ RegFindByEmail(p) \/ RegSave(p)
       \/ DbuSmembers(p) \/ DbuGet(p) \/ DbuDel(p) \/ DbuDelSet(p)
       \/ SaveSetex(p) \/ SaveSadd(p) \/ SaveExpire(p)
       \/ Respond(p)

SpecUsers == Init /\ [][NextUsers]_vars

\* Logins by password and by OAuth code, one after the other, with right and
\* wrong credentials and with a token endpoint that fails, of a user
\* registered with or without roles whose sessions are rotated in between.
NextFailures ==
  \/ \E d \in {PlainDto, AdminDto} : RegisterStart("p1", d)
  \/ \E t \in RefreshTokens : RefreshStart("p1", t)
  \/ \E e \in Emails, w \in Passwords : LoginStart("p1", e, w)
  \/ \E c \in {"good-code", "bad-code"} :
       OAuthCallbackStart("p1", "github", c, "https://app/cb", NeverIssued)
  \/ \E body \in FailureBodies : OaExchangeCodeNotOk("p1", body)
  \/ \E e \in Emails : OaGetUserInfoFromEmails("p1", e)
  \/ StepOAuth("p1")
  \/ Step("p1")
  \/ Respond("p1")

SpecFailures == Init /\ [][NextFailures]_vars

\* The requests of a client passing the rate limiters, minute by minute.
NextRate ==
  \/ \E k \in Clients, path \in Paths : Request(k, path)
  \/ Sweep
  \/ Tick

SpecRate == Init /\ [][NextRate]_vars

\* The same with a global limiter configured for a few requests a minute.
NextGlobal ==
  \/ \E k \in Clients, path \in Paths : Handle(k, path, ConfiguredMaxRequests)
  \/ Sweep
  \/ Tick

SpecGlobal == Init /\ [][NextGlobal]_vars

\* The TokenService called directly, as the clock advances.
NextToken ==
  \/ \E payload \in Payloads : Sign(payload)
  \/ \E token \in Candidates : Inspect(token)
  \/ Tick

SpecToken == Init /\ [][NextToken]_vars

\* Sessions created under every JWT configuration, as the clock advances.
NextConfig ==
  \/ \E config \in JwtConfigs, params \in Payloads : Create(config, params)
  \/ Tick

SpecConfig == Init /\ [][NextConfig]_vars

\* Sessions running out: requests one after the other while the clock goes
\* one tick further than elsewhere, past the expiry of every session.
NextExpiry ==
  \/ RegisterStart("p1", PlainDto)
  \/ \E e \in Emails : LoginStart("p1", e, "Secret123")
  \/ \E t \in RefreshTokens : RefreshStart("p1", t)
  \/ \E t \in AccessTokens : ValidateStart("p1", t)
  \/ Step("p1")
  \/ VaGetSession("p1") \/ VaFindUser("p1")
  \/ Respond("p1")
  \/ Advance(MaxTime + 1)

SpecExpiry == Init /\ [][NextExpiry]_vars

\* ------------------------------------------------------------------ claims
Done(p) == pc[p] = "done"
Quiet == \A p \in Procs : pc[p] \in {"idle", "done"}
Times == 0..MaxTime

\* The sessions of a user the store holds (GET session:<id> finds them).
SessionsOf(userId) ==
  {s \in Sids : RedisFindById(s) # Null /\ RedisFindById(s).userId = userId}

\* C1: a token produced by signAccessToken is rejected by verifyRefreshToken,
\* and a token produced by signRefreshToken is rejected by verifyAccessToken,
\* at every time and whatever the payload signed.
C1_TypeSeparation ==
  \A s \in issued, t \in Times :
    /\ verifyRefreshToken(s.accessToken, t) = Null
    /\ verifyAccessToken(s.refreshToken, t) = Null

\* C1 witness: both tokens of a session verify as their own type right now,
\* so it is the type claim that makes the other verifier reject them.
C1_Witness ==
  \E s \in issued :
    /\ verifyAccessToken(s.accessToken, now) # Null
    /\ verifyRefreshToken(s.refreshToken, now) # Null
    /\ verifyRefreshToken(s.accessToken, now) = Null
    /\ verifyAccessToken(s.refreshToken, now) = Null

\* C2: once a logout has found and removed a session, getSessionById of that
\* session returns none, and a later validateAccessToken / refreshToken that
\* presents its (still verifying) token ends invalid / SessionNotFound.
C2_LogoutInvalidates ==
  /\ \A s \in loggedOut : getSessionById(s) = Null
  /\ \A p \in Procs :
       Done(p) /\ loc[p].verified /\ loc[p].sid \in loggedOut =>
         /\ loc[p].op = "validate" => loc[p].out = "invalid"
         /\ loc[p].op = "refresh" => loc[p].out = "SessionNotFound"

\* C2 witness: a refreshToken whose token verified, presented after the logout
\* of its session, has ended with SessionNotFound.
C2_Witness ==
  \E p \in Procs :
    /\ Done(p) /\ loc[p].op = "refresh" /\ loc[p].verified
    /\ loc[p].sid \in loggedOut
    /\ loc[p].out = "SessionNotFound"
    /\ verifyRefreshToken(loc[p].tok, now) # Null

\* C3: when a logoutAll(userId) that ran with no other request in flight has
\* completed, the user's session index is empty and no access token issued
\* for that user passes validateAccessToken (verifies and has its session).
C3_LogoutAllInvalidates ==
  \A p \in Procs :
    Done(p) /\ loc[p].op = "logoutAll" /\ loc[p].alone =>
      /\ userSessions[loc[p].uid].members = {}
      /\ \A s \in issued :
           s.userId = loc[p].uid =>
             ~(verifyAccessToken(s.accessToken, now) # Null
               /\ getSessionById(s.id) # Null)

\* C4: a refreshToken that presents a refresh token already rotated with
\* success does not return a session: it fails with SessionNotFound while the
\* token still verifies (InvalidToken once it has expired); and no session is
\* ever rotated twice.
C4_RefreshOnce ==
  /\ \A p \in Procs :
       Done(p) /\ loc[p].op = "refresh" /\ loc[p].afterRotation =>
         loc[p].out = IF loc[p].verified THEN "SessionNotFound" ELSE "InvalidToken"
  /\ \A a, b \in Sids : parent[a] # 0 /\ parent[a] = parent[b] => a = b

\* C4 witness: the second refreshToken with a still verifying token has
\* failed with SessionNotFound after the first returned a session.
C4_Witness ==
  \E p \in Procs :
    /\ Done(p) /\ loc[p].op = "refresh" /\ loc[p].afterRotation
    /\ loc[p].verified /\ loc[p].out = "SessionNotFound"
    /\ \E s \in issued : parent[s.id] = loc[p].sid

\* C5: of two concurrent refreshToken calls with the same refresh token at
\* most one creates a session: no two sessions are rotated from one session.
C5_ConcurrentRefreshOnce ==
  \A a, b \in Sids :
    a # b /\ parent[a] # 0 /\ parent[a] = parent[b] =>
      ~({a, b} \subseteq {s.id : s \in issued})

\* C6: once a logout of session S and a concurrent refreshToken of S have both
\* completed, the store holds no session rotated from S after the logout had
\* removed S.
C6_LogoutNotUndone ==
  Quiet => \A s \in lateChild : getSessionById(s) = Null

\* C7: when a login (password or OAuth) has returned a session in a history
\* without overlapping requests, that session is the only one the store holds
\* for the user, by key and by index, until it expires.
C7_SingleSession ==
  \A p \in Procs :
    Done(p) /\ IsLogin(loc[p]) /\ loc[p].out = "ok" =>
      LET u == loc[p].newSess.userId
          mine == {loc[p].newSess.id}
      IN /\ SessionsOf(u) \subseteq mine
         /\ userSessions[u].members \subseteq mine
         /\ now < loc[p].newSess.refreshTokenExpiresAt =>
              SessionsOf(u) = mine /\ userSessions[u].members = mine

\* C7 witness: a login has returned a session for a user who had been given
\* another session before, and the new session is in the store.
C7_Witness ==
  \E p \in Procs :
    /\ Done(p) /\ IsLogin(loc[p]) /\ loc[p].out = "ok"
    /\ SessionsOf(loc[p].newSess.userId) = {loc[p].newSess.id}
    /\ \E s \in issued : s.userId = loc[p].newSess.userId /\ s.id # loc[p].newSess.id

\* C8: when two concurrent successful logins of one user have both completed,
\* at most one of the two sessions they created is still in the store.
C8_ConcurrentLoginOneLeft ==
  \A p \in Procs :
    Done(p) /\ IsLogin(loc[p]) /\ loc[p].out = "ok" /\ loc[p].rival # 0 =>
      ~(getSessionById(loc[p].newSess.id) # Null /\ getSessionById(loc[p].rival) # Null)

\* C9: an OAuth state value is consumed with success at most once: a callback
\* that presents a value an earlier callback already logged in with is
\* rejected.
C9_StateConsumedOnce ==
  \A p \in Procs :
    Done(p) /\ loc[p].op = "oauth" /\ loc[p].state \in 1..(nextState - 1)
      /\ loc[p].replay => loc[p].out # "ok"

\* C10: a callback whose state value getOAuthUrl never issued is rejected
\* before the provider's exchangeCode is invoked and creates no session.
C10_UnissuedStateRejected ==
  \A p \in Procs :
    loc[p].op = "oauth" /\ loc[p].state \notin 1..(nextState - 1) =>
      /\ ~loc[p].exchangeCalled
      /\ loc[p].newSess = Null

\* C11: the session refreshSession returns for a stored session s has another
\* id, another access token and another refresh token than s, and once it has
\* returned getSessionById(s.id) returns none.
C11_RefreshChangesIdAndTokens ==
  \A p \in Procs :
    Done(p) /\ loc[p].op = "refresh" /\ loc[p].out = "ok" =>
      /\ loc[p].newSess.id # loc[p].old.id
      /\ loc[p].newSess.accessToken # loc[p].old.accessToken
      /\ loc[p].newSess.refreshToken # loc[p].old.refreshToken
      /\ getSessionById(loc[p].old.id) = Null

\* C11 witness: a refreshToken has returned a session that is in the store.
C11_Witness ==
  \E p \in Procs :
    /\ Done(p) /\ loc[p].op = "refresh" /\ loc[p].out = "ok"
    /\ loc[p].old # Null
    /\ getSessionById(loc[p].newSess.id) = loc[p].newSess
    /\ getSessionById(loc[p].old.id) = Null

\* C13: the session refreshSession returns for s has the userId, email, roles,
\* permissions and metadata of s.
C13_RefreshCarriesForward ==
  \A p \in Procs :
    Done(p) /\ loc[p].op = "refresh" /\ loc[p].out = "ok" =>
      /\ loc[p].newSess.userId = loc[p].old.userId
      /\ loc[p].newSess.email = loc[p].old.email
      /\ loc[p].newSess.roles = loc[p].old.roles
      /\ loc[p].newSess.permissions = loc[p].old.permissions
      /\ loc[p].newSess.metadata = loc[p].old.metadata

\* C13 witness: a session with roles, permissions and metadata has been
\* rotated, and the new session has other expiries or creation time only if
\* time has passed.
C13_Witness ==
  \E p \in Procs :
    /\ Done(p) /\ loc[p].op = "refresh" /\ loc[p].out = "ok"
    /\ loc[p].old.roles = {"admin"}
    /\ loc[p].old.permissions = {"users:read"}
    /\ loc[p].old.metadata = [plan |-> "pro"]
    /\ loc[p].newSess.roles = {"admin"}
    /\ loc[p].newSess.createdAt > loc[p].old.createdAt

\* C12: rotation is atomic: from the moment refreshToken has read the session
\* of an existing user, the store holds the old session or its replacement as
\* long as the old one has not expired, and when the rotation fails the old
\* session is still in the store.
C12_RotationAtomic ==
  \A p \in Procs :
    /\ loc[p].op = "refresh" /\ loc[p].old # Null /\ ~loc[p].orphan
    /\ now < loc[p].old.refreshTokenExpiresAt
    => /\ \/ getSessionById(loc[p].old.id) # Null
          \/ /\ loc[p].newSess # Null
             /\ getSessionById(loc[p].newSess.id) # Null
       /\ Done(p) /\ loc[p].out # "ok" => getSessionById(loc[p].old.id) # Null

\* A step of the request handler p.
Steps(p) == pc'[p] # pc[p]
StoresUnchanged == UNCHANGED <<users, nextUid, keys, userSessions, nextSid>>

\* C14: a register whose email, lower-cased and trimmed, belongs to a stored
\* user fails with AlreadyExists; none of its steps changes the user store or
\* the session store, and it creates neither a user nor a session.
C14_RegisterAlreadyExists ==
  [][\A p \in Procs :
       Steps(p) /\ loc'[p].op = "register" /\ loc'[p].known =>
         /\ StoresUnchanged
         /\ pc'[p] = "done" =>
              /\ loc'[p].out = "AlreadyExists"
              /\ loc'[p].user = Null
              /\ loc'[p].newSess = Null]_vars

\* C14 witness: a register with an email that differs from the stored one in
\* case and surrounding blanks has failed with AlreadyExists.
C14_Witness ==
  \E p \in Procs :
    /\ Done(p) /\ loc[p].op = "register" /\ loc[p].known
    /\ loc[p].dto.email = RawEmail
    /\ loc[p].out = "AlreadyExists"
    /\ \E u \in Uids : users[u] # Null /\ users[u].email = "a@x.com"

\* C15: a password login with a wrong password for an existing user fails
\* with InvalidCredentials; none of its steps changes the stores, so no
\* session is created and the user's sessions remain.
C15_WrongPassword ==
  [][\A p \in Procs :
       /\ Steps(p) /\ loc'[p].op = "login" /\ loc'[p].known
       /\ loc'[p].password = "Wrong456"
       => /\ StoresUnchanged
          /\ pc'[p] = "done" =>
               /\ loc'[p].out = "InvalidCredentials"
               /\ loc'[p].newSess = Null]_vars

\* C15 witness: a login with the wrong password has failed with
\* InvalidCredentials while the user still has a session in the store.
C15_Witness ==
  \E p \in Procs :
    /\ Done(p) /\ loc[p].op = "login" /\ loc[p].known
    /\ loc[p].password = "Wrong456"
    /\ loc[p].out = "InvalidCredentials"
    /\ \E u \in Uids : users[u] # Null /\ SessionsOf(u) # {}

\* C16: a refreshToken whose token verifies and whose session exists while
\* the session's user is gone removes that session, creates no session and
\* fails with UserNotFound (the token still verifying when it returns).
C16_OrphanedSession ==
  \A p \in Procs :
    /\ Done(p) /\ loc[p].op = "refresh" /\ loc[p].verified
    /\ loc[p].hadSession /\ loc[p].userGone
    /\ verifyRefreshToken(loc[p].tok, now) # Null
    => /\ loc[p].out = "UserNotFound"
       /\ getSessionById(loc[p].sid) = Null
       /\ \A u \in Uids : loc[p].sid \notin userSessions[u].members
       /\ loc[p].newSess = Null

\* C16 witness: such a refreshToken has failed with UserNotFound after finding
\* and deleting the session.
C16_Witness ==
  \E p \in Procs :
    /\ Done(p) /\ loc[p].op = "refresh" /\ loc[p].hadSession /\ loc[p].userGone
    /\ loc[p].existed
    /\ loc[p].out = "UserNotFound"
    /\ getSessionById(loc[p].sid) = Null

\* ------------------------------------------------------------ AppError
\* The statusCode and code of the error classes the handlers throw (0, "": the
\* outcome is no AppError).
statusCode(out) ==
  CASE out \in {"BadRequest", "ValidationError"} -> 400
    [] out \in {"InvalidCredentials", "InvalidToken", "SessionNotFound"} -> 401
    [] out = "UserNotFound" -> 404
    [] out = "AlreadyExists" -> 409
    [] out = "OAuthProviderError" -> 502
    [] OTHER -> 0

code(out) ==
  CASE out = "BadRequest" -> "BAD_REQUEST"
    [] out = "ValidationError" -> "VALIDATION_ERROR"
    [] out = "InvalidCredentials" -> "INVALID_CREDENTIALS"
    [] out = "InvalidToken" -> "INVALID_TOKEN"
    [] out = "SessionNotFound" -> "SESSION_NOT_FOUND"
    [] out = "UserNotFound" -> "USER_NOT_FOUND"
    [] out = "AlreadyExists" -> "USER_ALREADY_EXISTS"
    [] out = "OAuthProviderError" -> "OAUTH_PROVIDER_ERROR"
    [] OTHER -> ""

\* ---------------------------------------------------- errorHandlerMiddleware
\* What a handler or middleware further down the chain can throw: AppErrors
\* (with or without details), a SyntaxError with or without a body property,
\* another Error, and a value that is no Error.
Thrown ==
  {[kind |-> "AppError", name |-> n, message |-> "app message",
    details |-> IF n \in {"OAuthProviderError", "ValidationError"} THEN [of |-> n] ELSE Null,
    stack |-> "app stack"] :
     n \in {"InvalidCredentials", "UserNotFound", "OAuthProviderError", "ValidationError"}}
  \cup {[kind |-> "SyntaxError", body |-> b, message |-> "Unexpected token",
         stack |-> "parser stack"] : b \in BOOLEAN}
  \cup {[kind |-> "Error", message |-> "connect ECONNREFUSED 10.0.0.5:5432",
         stack |-> "driver stack"],
        [kind |-> "string"]}

\* process.env.NODE_ENV: unset ("undefined"), or set.
NodeEnvs == {"undefined", "production", "development"}

\* The options a caller passes: any part of ErrorHandlerOptions.
ErrorHandlerOptions ==
  UNION {[d -> BOOLEAN] : d \in SUBSET {"includeStack", "logErrors"}}

DEFAULT_ERROR_OPTIONS(env) ==
  [includeStack |-> env # "production", logErrors |-> TRUE]

\* The response of the catch block: its status and the fields of its body.
errorHandlerMiddleware(env, options, err) ==
  LET config == options @@ DEFAULT_ERROR_OPTIONS(env)
      id == [requestId |-> "ctx.requestId"]
  IN IF err.kind = "AppError"
     THEN [status |-> statusCode(err.name),
           body |-> [error |-> err.message, code |-> code(err.name),
                     timestamp |-> "err.timestamp"] @@ id
                    @@ (IF err.details # Null THEN [details |-> err.details] ELSE <<>>)
                    @@ (IF config.includeStack THEN [stack |-> err.stack] ELSE <<>>)]
     ELSE IF err.kind = "SyntaxError" /\ err.body
     THEN [status |-> 400,
           body |-> [error |-> "Invalid JSON in request body", code |-> "INVALID_JSON"]
                    @@ id]
     ELSE [status |-> 500,
           body |-> [error |-> "Internal server error", code |-> "INTERNAL_ERROR"] @@ id
                    @@ (IF config.includeStack /\ err.kind # "string"
                        THEN [message |-> err.message, stack |-> err.stack]
                        ELSE <<>>)]

\* next() throws err in a process started with NODE_ENV = env, the middleware
\* having been created with options.
Catch(env, options, err) ==
  /\ env \in NodeEnvs /\ options \in ErrorHandlerOptions /\ err \in Thrown
  /\ handled' = [env |-> env, options |-> options, err |-> err,
                 response |-> errorHandlerMiddleware(env, options, err)]
  /\ UNCHANGED <<now, storeVars, oauthVars, pc, loc, issued, histVars, loggedOut,
                 consumed, rateVars, tokenVars, registryVars, routerVars>>

NextCatch ==
  \E env \in NodeEnvs, options \in ErrorHandlerOptions, err \in Thrown :
    Catch(env, options, err)

SpecCatch == Init /\ [][NextCatch]_vars

\* A call starts: the process leaves idle.
Starts(p) == pc[p] = "idle" /\ pc'[p] # "idle"

\* The token is a refresh (access) token this service signed and that has not
\* expired.
GenuineRefresh(token) == token \in RefreshTokens /\ now < token.exp
GenuineAccess(token) == token \in AccessTokens /\ now < token.exp

\* C17: a refreshToken with a token that is not an unexpired refresh token of
\* this service (no JWT, tampered, expired, or an access token, even of a live
\* session) fails at once with InvalidToken and leaves the stores unchanged.
C17_RefreshInvalidToken ==
  [][\A p \in Procs :
       Starts(p) /\ loc'[p].op = "refresh" /\ ~GenuineRefresh(loc'[p].tok) =>
         /\ pc'[p] = "done"
         /\ loc'[p].out = "InvalidToken"
         /\ loc'[p].newSess = Null
         /\ StoresUnchanged]_vars

\* C17 witness: a refreshToken given the valid access token of a live session
\* has failed with InvalidToken, the session still stored.
C17_Witness ==
  \E p \in Procs :
    /\ Done(p) /\ loc[p].op = "refresh" /\ loc[p].out = "InvalidToken"
    /\ GenuineAccess(loc[p].tok)
    /\ getSessionById(loc[p].tok.sessionId) # Null

\* C18: a logout with a token that is not an unexpired access token of this
\* service (no JWT, tampered, expired, or a refresh token) returns at once
\* without error and leaves the stores unchanged; and no step of a logout whose
\* token's session an earlier logout removed changes the stores or ends in an
\* error.
C18_LogoutIdempotent ==
  [][\A p \in Procs :
       /\ Starts(p) /\ loc'[p].op = "logout" /\ ~GenuineAccess(loc'[p].tok)
          => /\ pc'[p] = "done" /\ loc'[p].out = "ok"
             /\ StoresUnchanged
       /\ /\ Steps(p) /\ loc'[p].op = "logout" /\ GenuineAccess(loc'[p].tok)
          /\ loc'[p].tok.sessionId \in loggedOut
          => /\ StoresUnchanged
             /\ pc'[p] = "done" => loc'[p].out = "ok"]_vars

\* C18 witness: a second logout with the same, still valid, access token has
\* returned without error after finding no session.
C18_Witness ==
  \E p \in Procs :
    /\ Done(p) /\ loc[p].op = "logout" /\ loc[p].out = "ok"
    /\ GenuineAccess(loc[p].tok) /\ ~loc[p].existed
    /\ loc[p].tok.sessionId \in loggedOut

\* C19: a request to a route behind authMiddleware that carries the access
\* token of a session a completed logout has removed is answered 401 and its
\* handler is not run.
C19_StaleTokenRejected ==
  \A p \in Procs :
    /\ Done(p) /\ loc[p].op = "claims"
    /\ loc[p].tok \in AccessTokens /\ loc[p].tok.sessionId \in loggedOut
    => loc[p].out = "401"

\* C20: every request to /register or /login is let through to its handler
\* when it is among the first ten of its client key in the key's window of
\* fifteen minutes, and is answered 429 when it is beyond the tenth, whatever
\* was requested on other routes.
C20_TenAttemptsPerWindow ==
  answered # Null /\ answered.path \in AuthPaths =>
    (answered.status = "429" <=> attempts[answered.key].count > AuthMaxRequests)

\* C21: in every window of the global limiter at most maxRequests requests of
\* a client key are let through; a request arriving when maxRequests of the
\* window have been let through is answered 429 by the global limiter; and a
\* request arriving after the window's resetAt starts a new window and is let
\* through.
C21_GlobalLimit ==
  /\ \A k \in Clients :
       forwarded[k] # Null => forwarded[k].count <= ConfiguredMaxRequests
  /\ answered # Null /\ answered.path \notin SkipPaths =>
       /\ answered.before >= ConfiguredMaxRequests =>
            ~answered.global /\ answered.status = "429"
       /\ answered.fresh => answered.global

\* C21 witness: a request arriving after the resetAt of the client's window
\* has started a new window and was let through.
C21_Witness ==
  /\ answered # Null /\ answered.path \notin SkipPaths
  /\ answered.renewed /\ answered.global
  /\ rateLimitStore[answered.key].count = 1
  /\ rateLimitStore[answered.key].resetAt = now + GlobalWindow

\* The claims a signed payload must come back as: the fields of the payload,
\* the optional ones empty when absent.
SameIdentity(claims, payload) ==
  /\ claims.sub = payload.userId
  /\ claims.email = payload.email
  /\ claims.sessionId = payload.sessionId

C24_IsExpiredFailClosed ==
  inspected # Null /\ ~inspected.expired => inspected.decoded # Null

\* C25: every session createSession builds, under any configured TTLs, has
\* accessTokenExpiresAt <= refreshTokenExpiresAt, both being createdAt plus
\* the configured TTL.
C25_AccessExpiresFirst ==
  made # Null =>
    /\ made.session.accessTokenExpiresAt
         = made.session.createdAt + made.config.accessTokenTTL
    /\ made.session.refreshTokenExpiresAt
         = made.session.createdAt + made.config.refreshTokenTTL
    /\ made.session.accessTokenExpiresAt <= made.session.refreshTokenExpiresAt

\* C26: a session whose refreshTokenExpiresAt has passed is treated as absent:
\* getSessionById does not return it, and a validateAccessToken or refreshToken
\* called with a token of it does not accept the token.
C26_ExpiredSessionAbsent ==
  [][/\ \A id \in Sids :
          keys'[id] # Null => now' <= keys'[id].data.refreshTokenExpiresAt
     /\ \A p \in Procs :
          /\ Starts(p) /\ loc'[p].op \in {"validate", "refresh"}
          /\ \E s \in issued : /\ loc'[p].tok \in {s.accessToken, s.refreshToken}
                               /\ now > s.refreshTokenExpiresAt
          => ~loc'[p].verified /\ pc'[p] = "done"
                /\ loc'[p].out \in {"invalid", "InvalidToken"}]_vars

\* C27: once the key of a session id has been deleted (logout, logoutAll,
\* rotation, orphan cleanup), getSessionById(id) never returns a session again,
\* whatever runs later or concurrently, and no session being created carries
\* that id.
C27_RemovedStaysRemoved ==
  /\ \A id \in removed : getSessionById(id) = Null
  /\ \A p \in Procs :
       pc[p] = "save_setex" => loc[p].newSess.id \notin removed

\* Two ids have been removed, one of them by a rotation whose successor is
\* stored, while the other request is still running.
C27_Witness ==
  /\ Cardinality(removed) >= 2
  /\ \E id \in removed, id2 \in Sids :
       /\ parent[id2] = id
       /\ getSessionById(id2) # Null
       /\ getSessionById(id) = Null
  /\ \E p \in Procs : pc[p] \notin {"idle", "done"}

\* C28: every OAuth state getOAuthUrl issued is eventually removed from the
\* state store once it is older than the ten minutes, used or not, and
\* whether or not another getOAuthUrl call arrives.
C28_OldStateEventuallyRemoved ==
  \A x \in 1..MaxOAuthStates :
    (oauthStates[x] # Null /\ oauthStates[x].timestamp < now - OAuthStateTTL)
      ~> (oauthStates[x] = Null)

\* C29: getOAuthUrl for a provider that is not registered, or that has no
\* getAuthorizationUrl, fails with ProviderNotConfigured, a 400 error, and
\* stores no OAuth state.
C29_ProviderNotConfigured ==
  [][\A p \in Procs :
       /\ Starts(p) /\ loc'[p].op = "getOAuthUrl"
       /\ loc'[p].provider \notin Registered \cap OAuthCapable
       => /\ pc'[p] = "done"
          /\ code(loc'[p].out) = "PROVIDER_NOT_CONFIGURED"
          /\ statusCode(loc'[p].out) = 400
          /\ UNCHANGED oauthVars]_vars

\* C30: a login whose provider authenticated an identity with an id that the
\* user store does not hold fails with the 404 of a missing user; no step of
\* it up to there changes the user store or the session store, so no user is
\* created and no session is invalidated or created.
C30_UnknownIdNotFound ==
  [][\A p \in Procs :
       Steps(p) /\ loc'[p].op = "login" =>
         /\ pc'[p] \in {"auth_findByEmail", "cous_findById"} => StoresUnchanged
         /\ pc[p] = "cous_findById" /\ findById(loc[p].uid) = Null =>
              /\ pc'[p] = "done"
              /\ loc'[p].out = "UserNotFound"
              /\ statusCode(loc'[p].out) = 404
              /\ loc'[p].newSess = Null
              /\ StoresUnchanged]_vars

\* C30 witness: a login with the right password has failed with UserNotFound,
\* the account having been removed after the password check, while a session
\* of the removed user is still in the store.
C30_Witness ==
  \E p \in Procs :
    /\ Done(p) /\ loc[p].op = "login" /\ loc[p].out = "UserNotFound"
    /\ loc[p].uid # 0 /\ findById(loc[p].uid) = Null
    /\ SessionsOf(loc[p].uid) # {}

\* The provider most recently passed to register with the method (Null: none).
LastRegistered(method) ==
  LET at == {i \in 1..Len(registrations) : registrations[i].method = method}
  IN IF at = {} THEN Null
     ELSE registrations[CHOOSE i \in at : \A j \in at : j <= i]

\* C31: after any sequence of register calls, get(m) is the provider most
\* recently registered with method m (none if there was none), has(m) is true
\* exactly when get(m) is not none, and list() holds each registered method
\* exactly once.
C31_LastRegistrationWins ==
  /\ \A m \in AuthMethods :
       /\ get(m) = LastRegistered(m)
       /\ has(m) <=> get(m) # Null
  /\ {list[i] : i \in 1..Len(list)}
       = {registrations[i].method : i \in 1..Len(registrations)}
  /\ \A i, j \in 1..Len(list) : list[i] = list[j] => i = j

\* C31 witness: a method was registered with one object, then another method,
\* then the first method again with a second object, which get returns; a
\* third method was never registered.
C31_Witness ==
  /\ Len(registrations) >= 3
  /\ registrations[1].method = registrations[3].method
  /\ registrations[1] # registrations[3]
  /\ registrations[2].method # registrations[1].method
  /\ get(registrations[1].method) = registrations[3]
  /\ Len(list) = 2
  /\ \E m \in AuthMethods : ~has(m) /\ get(m) = Null

\* C32: merge keeps the full path of every merged route: once a router has
\* been merged into the app, each route it had is listed by getRoutes and
\* served by the handler under base path + route path (/api/health,
\* /api/ready, /api/auth/<route>) with its method and route middlewares, and
\* the app lists no other path.
C32_MergeKeepsFullPath ==
  LET Expected(name) ==
        {[method |-> RouteCalls(name)[i].method,
          path |-> routers[name].basePath \o RouteCalls(name)[i].path,
          middlewares |-> RouteCalls(name)[i].middlewares] :
           i \in 1..(IF mergedIn[name] = NotMerged THEN 0 ELSE mergedIn[name])}
      expected == Expected("health") \cup Expected("auth")
  IN /\ getRoutes(routers.app) = {[method |-> e.method, path |-> e.path] : e \in expected}
     /\ \A e \in expected :
          /\ handler(routers.app, e.method, e.path) \notin {"404", "405"}
          /\ handler(routers.app, e.method, e.path).middlewares = e.middlewares

\* C33: with default options the error handler answers an error that is no
\* AppError with status 500 and a generic body without the original message
\* and without a stack, and answers an AppError with the error's own
\* statusCode and code.
C33_NoInternalDetail ==
  handled # Null /\ handled.options = <<>> =>
    LET err == handled.err
        response == handled.response
    IN IF err.kind = "AppError"
       THEN /\ response.status = statusCode(err.name)
            /\ response.body.code = code(err.name)
       ELSE /\ response.status = 500
            /\ response.body.error = "Internal server error"
            /\ DOMAIN response.body \cap {"message", "stack"} = {}

\* The session's two tokens are signed by this service and scoped to it.
TokensScoped(s) ==
  /\ s.accessToken # Null /\ s.refreshToken # Null
  /\ s.accessToken.key = Config.secret /\ s.refreshToken.key = Config.secret
  /\ LET a == mapPayloadToClaims(s.accessToken)
         r == mapPayloadToClaims(s.refreshToken)
     IN /\ a.sessionId = s.id /\ a.sub = s.userId /\ a.type = "access"
        /\ r.sessionId = s.id /\ r.sub = s.userId /\ r.type = "refresh"

\* C34: every session in the store has an access token and a refresh token
\* whose claims carry the session's id as sessionId and the session's userId
\* as sub, of type access and refresh; a session about to be saved already has
\* both tokens signed.
C34_TokensScopedToSession ==
  /\ \A id \in Sids :
       getSessionById(id) # Null =>
         getSessionById(id).id = id /\ TokensScoped(getSessionById(id))
  /\ \A p \in Procs : pc[p] = "save_setex" => TokensScoped(loc[p].newSess)

\* C34 witness: the store holds the sessions of two users, one of them made by
\* a rotation, while a request is running.
C34_Witness ==
  /\ \E id, id2 \in Sids :
       /\ getSessionById(id) # Null /\ getSessionById(id2) # Null
       /\ getSessionById(id).userId # getSessionById(id2).userId
       /\ parent[id] # 0
  /\ \E p \in Procs : pc[p] \notin {"idle", "done"}

\* C35: whenever no save, delete or deleteByUserId is in flight, every session
\* record in the store is a member of its user's user_sessions set, so no
\* session whose access token still validates is out of the sight of
\* findByUserId and deleteByUserId.
C35_StoredSessionsIndexed ==
  Quiet =>
    \A id \in Sids :
      LET s == getSessionById(id)
      IN s # Null /\ verifyAccessToken(s.accessToken, now) # Null =>
           id \in userSessions[s.userId].members

\* C36: for every interleaving of concurrent register calls, and of OAuth
\* logins that create a placeholder user, the user store never holds two
\* users with the same normalized email: at most one of the calls creates a
\* user for it.
C36_EmailUnique ==
  \A u1, u2 \in Uids :
    u1 # u2 /\ users[u1] # Null /\ users[u2] # Null =>
      Normalize(users[u1].email) # Normalize(users[u2].email)

\* C36 witness: two calls had both found the email free and drawn a user id
\* for it; one has saved its user, the other has failed in its save.
C36_Witness ==
  \E p, q \in Procs :
    /\ p # q /\ Done(p) /\ loc[p].out = "DatabaseError"
    /\ loc[p].uid # loc[q].uid
    /\ users[loc[p].uid] = Null
    /\ users[loc[q].uid] # Null
    /\ users[loc[q].uid].email = loc[p].user.email

\* C37: register is all-or-nothing: when a register has failed, also by a
\* failure of createSession after the user was saved, the user store does not
\* hold the user it was creating, so the email can be registered again.
C37_RegisterAllOrNothing ==
  \A p \in Procs :
    Done(p) /\ loc[p].op = "register" /\ loc[p].out # "ok" =>
      /\ loc[p].uid \in Uids => users[loc[p].uid] = Null
      /\ ~loc[p].known => ~EmailTaken(loc[p].email)

\* C38: login reports InvalidCredentials only when authenticate rejected the
\* presented credentials (an unknown email or wrong password, a code the
\* provider did not hand out); every other failure is raised again unchanged.
C38_InvalidCredentialsOnlyForCredentials ==
  \A p \in Procs :
    Done(p) /\ IsLogin(loc[p]) /\ loc[p].out = "InvalidCredentials" =>
      IF loc[p].op = "login"
      THEN \/ findByEmail(loc[p].email) = Null
           \/ findByEmail(loc[p].email).passwordHash # Hash(loc[p].password)
      ELSE loc[p].code # "good-code"

\* C39: an identity the provider returned with emailVerified = false never
\* reaches an existing local user of the same email: when
\* createOrUpdateUserSession finds such a user, the login ends there without a
\* session, and the user's sessions are not invalidated.
C39_UnverifiedEmailNotLinked ==
  [][\A p \in Procs :
       /\ Steps(p) /\ pc[p] = "cous_findByEmail"
       /\ ~loc[p].emailVerified
       /\ findByEmail(loc[p].email) # Null
       => /\ pc'[p] = "done" /\ loc'[p].out # "ok"
          /\ UNCHANGED storeVars]_vars

\* C40: a session created by login, by password or by OAuth, has no roles and
\* no permissions, whatever the user was registered with; a session with roles
\* or permissions is the one register creates, or one that refreshToken
\* creates from a session that had them, with the same roles and permissions.
C40_LoginSessionsPlain ==
  \A p \in Procs :
    loc[p].newSess # Null =>
      LET s == loc[p].newSess
      IN /\ IsLogin(loc[p]) => s.roles = {} /\ s.permissions = {}
         /\ s.roles # {} \/ s.permissions # {} =>
              \/ loc[p].op = "register"
              \/ /\ loc[p].op = "refresh"
                 /\ parent[s.id] = loc[p].old.id
                 /\ s.roles = loc[p].old.roles
                 /\ s.permissions = loc[p].old.permissions

\* C40 witness: a login has returned a session for a user whose earlier
\* session, rotated from the one of a register with roles, had roles.
C40_Witness ==
  \E p \in Procs, r \in issued :
    /\ Done(p) /\ IsLogin(loc[p]) /\ loc[p].out = "ok"
    /\ r.userId = loc[p].newSess.userId
    /\ r.roles # {} /\ parent[r.id] # 0
    /\ loc[p].newSess.roles = {} /\ loc[p].newSess.permissions = {}
====
